---- MODULE Spec2Model ----
(***************************************************************************)
(* Redmine-to-Jira: the resumable export / import pipeline.                *)
(*                                                                         *)
(* The exporter (src/utils/_exporter.py, RedmineExporter.run) lists the    *)
(* issues of a project, writes one record per issue to an output file and  *)
(* saves the 1-based index of the issue just handled to a progress file.   *)
(* The importer (src/utils/_importer.py, JiraImporter.import_issues) reads *)
(* the exported file line by line, creates one destination issue per line  *)
(* and saves the line number to a checkpoint file.  Both offer a           *)
(* reset / resume / exit prompt when an earlier run left files behind.     *)
(*                                                                         *)
(* Files persist from one run to the next; everything else is per run.     *)
(* An issue is identified with its position in the (stable) source list.   *)
(***************************************************************************)
EXTENDS Integers, Sequences, FiniteSets, TLC

\* ---------------------------------------------------------------- bounds
MaxIssues == 3      \* issues of the source project / lines of the import file
MaxRuns == 2        \* successive runs of the program over the same files
MaxIndex == 120     \* largest index handed to save_progress on its own
MaxProjectLen == 2  \* longest project name given to --project
PageLimit == 2      \* config: Exporter.maximum_issues, the page size requested
MaxPages == 3       \* non-empty pages a source serves before it runs dry
MaxTotal == 3       \* largest total_count a response carries
MaxRequests == 6    \* requests after which a list fetch is no longer followed
MaxThreads == 2     \* threads that share one RateLimiter
MaxCalls == 4       \* calls of wait() the threads make in all
MaxDelay == 2       \* largest delay a RateLimiter is built with, in ticks
MaxTime == 6        \* ticks of the clock that are followed
MaxAttachments == 2 \* attachments of one issue
MaxJournals == 2    \* journals of one issue
MaxItems == 2       \* issues of a project exported request by request
MaxEntries == 1     \* journals the source holds for one of them
MaxFiles == 1       \* attachments the source holds for one of them
MaxFileSize == 2    \* config: Importer.maximum_file_size, in size units
MaxTransitions == 2 \* transitions in one answer of the destination

VARIABLES
    prog,                  \* which program the runs execute
    runs,                  \* number of runs started so far
    pc,                    \* position of the current run
    source,                \* the issues the source tracker holds, in list order
    output_file,           \* <project>_<status>_issues.json
    progress_file,         \* <project>_<status>_progress.log
    user_choice,           \* what the operator typed at the prompt of this run
    current_issue_index,   \* run(): the index the loop starts after
    issues,                \* run(): the list fetch_issues returned
    i,                     \* run(): the loop's 1-based index
    loop_error,            \* run(): the loop was left through `except Exception`
    fetches,               \* list fetches issued by this run
    fetch_failed,          \* a request of this run's list fetch failed
    processed,             \* items handed to process_issue / issues_setup in this run
    output_at_start,       \* output_file when this run started
    progress_at_start,     \* progress_file / checkpoint_file when this run started
    previous_end,          \* how the run before this one ended (its last pc)
    files,                 \* the exported files on disk, by name
    filename,              \* import_issues(filename): the file this run reads
    previous_filename,     \* the file the run before this one read
    lines,                 \* the lines of the file import_issues reads
    checkpoint_file,       \* issue_progress.log
    checkpoint_source,     \* the file whose import wrote checkpoint_file
    start_from_checkpoint, \* import_issues(): the operator chose to resume
    checkpoint_id,         \* import_issues(): the last line number checkpointed
    line_num,              \* import_issues(): the loop's 1-based line number
    created,               \* destination: the lines an issue was created for, ever
    create_requests,       \* issue-creation requests sent by this run, by line
    created_at_start,      \* number of destination issues when this run started
    run_args,              \* (args.project, args.status) of two export runs
    file_names,            \* the output and progress file names run() computes
    served,                \* list fetch: the responses the source has given
    requested,             \* list fetch: params["offset"] of each request sent
    data,                  \* list fetch: the items gathered (data / issues)
    offset,                \* list fetch: the offset of the next request
    clock,                 \* time.perf_counter(), in ticks
    delay,                 \* RateLimiter.delay, in ticks
    last_request_time,     \* RateLimiter.last_request_time
    lock,                  \* RateLimiter.lock: the thread that holds it, or 0
    thread_pc,             \* per thread: where it is in wait()
    remaining_time,        \* per thread: wait()'s local of that name
    wake_at,               \* per thread: the time its time.sleep ends
    calls,                 \* the calls of wait() made so far
    read_last,             \* per thread: last_request_time as wait() read it
    grants,                \* the slots granted: who recorded which time
    issue_data,            \* issues_setup(issue_data): the record of the item
    attachment_no,         \* handle_attachments: attachments gone through
    journal_no,            \* issues_setup: journals gone through
    outbound,              \* the acquisitions and requests sent, in order
    journals,              \* process_issue: what fetch_journals returned
    staged,                \* attachments/<issue-id>/: the files saved, by issue
    answers,               \* what the source answered for each issue processed
    jira_issue_key,        \* issues_setup: its local of that name, once bound
    failure,               \* the request of this item that failed, and its answer
    log,                   \* the warnings and errors logged for this item
    unauthorized,          \* a request of this run has been answered 401
    considered,            \* handle_attachments: what was done with each one
    completion_log,        \* the run has logged its completion
    fields,                \* issue_data["issue"]: the source fields of an item
    jira_issue,            \* jira_issue["fields"]: the payload being built
    old_priority_name,     \* handle_priority: the source priority's name
    staging,               \* attachments/<issue-id>/: the state of each file
    staging_at_start,      \* staging when fetch_attachments was called
    downloads,             \* the attachments a download was requested for
    source_journals,       \* the journals the source holds for an issue
    comments_sent,         \* the journals a comment was posted for, in order
    args_status,           \* fetch_issues(status): None (<<>>) or an int
    params,                \* fetch_issues: the params the status adds
    issue_status,          \* issues_setup: issue_data["issue"]["status"]["name"]
    target_status,         \* get_transition_id(issue_key, target_status)
    transitions,           \* get_transition_id: the transitions answered
    transition_id,         \* issues_setup: what get_transition_id returned
    user_search,           \* what the search for the reporter / assignee gave
    importer_args          \* JiraImporter.run(args): the options given

expVars == <<source, output_file, progress_file, current_issue_index, issues, i,
             loop_error, fetches, fetch_failed, output_at_start>>

fileVars == <<files, filename, previous_filename>>

impVars == <<fileVars, lines, checkpoint_file, checkpoint_source,
             start_from_checkpoint, checkpoint_id, line_num, created,
             create_requests, created_at_start>>

nameVars == <<run_args, file_names>>

pagVars == <<served, requested, data, offset>>

\* What the specifications of single components add to the pipeline's state.
limVars == <<clock, delay, last_request_time, lock, thread_pc, remaining_time,
             wake_at, calls, read_last, grants>>

detVars == <<issue_data, attachment_no, journal_no, outbound>>

subVars == <<journals, staged, answers>>

itemVars == <<jira_issue_key, failure, log, unauthorized, considered>>

payVars == <<fields, jira_issue, old_priority_name>>

dlVars == <<staging, staging_at_start, downloads>>

jrVars == <<source_journals, comments_sent>>

lookVars == <<args_status, params, issue_status, target_status, transitions,
              transition_id, user_search, importer_args>>

extVars == <<payVars, dlVars, jrVars, completion_log, lookVars>>

compVars == <<pagVars, limVars, detVars, subVars, itemVars, payVars, dlVars,
              jrVars, lookVars>>

auxVars == <<compVars, completion_log>>

vars == <<prog, runs, pc, user_choice, processed, progress_at_start,
          previous_end, expVars, impVars, nameVars, auxVars>>

\* ------------------------------------------------------------- helpers
Min(a, b) == IF a < b THEN a ELSE b

Range(s) == {s[k] : k \in 1..Len(s)}

Count(x, s) == Cardinality({k \in 1..Len(s) : s[k] = x})

IsPrefix(s, t) == Len(s) <= Len(t) /\ SubSeq(t, 1, Len(s)) = s

\* <<a, a+1, ..., b>> (empty when b < a)
Interval(a, b) == [k \in 1..(IF b >= a THEN b - a + 1 ELSE 0) |-> a + k - 1]

\* A file that does not exist.
NoFile == [exists |-> FALSE, text |-> <<>>]

\* ------------------------------------------------ str() and int() of Python
DigitChar == <<"0", "1", "2", "3", "4", "5", "6", "7", "8", "9">>

DigitValue(c) == CHOOSE d \in 0..9 : DigitChar[d + 1] = c

\* str(n) for a non-negative int: its decimal digits, most significant first.
RECURSIVE str(_)
str(n) == IF n < 10 THEN <<DigitChar[n + 1]>>
          ELSE Append(str(n \div 10), DigitChar[(n % 10) + 1])

\* int(s) for a string of decimal digits (int('') raises ValueError: no file
\* the program writes is empty, save_progress always writes at least one digit).
RECURSIVE int(_)
int(s) == IF Len(s) = 1 THEN DigitValue(s[1])
          ELSE 10 * int(SubSeq(s, 1, Len(s) - 1)) + DigitValue(s[Len(s)])

\* ------------------------------------------------------- checkpoint store
\* A save_progress that opens the file in append mode.
save_progress_append(current, file) ==
    [exists |-> TRUE, text |-> file.text \o str(current)]

\* save_progress(current_issue_index, progress_file): open(..., "w"), write str(i).
save_progress(current, file) == [exists |-> TRUE, text |-> str(current)]

\* load_progress(progress_file): 0 when the file is absent, else int(file.read()).
load_progress(file) == IF ~file.exists THEN 0 ELSE int(file.text)

\* --------------------------------------------------------- paginated fetch
\* The page the source serves for the offset `from` and the limit.
Page(src, from, limit) ==
    SubSeq(src, from + 1, Min(from + limit, Len(src)))

\* fetch_data_with_pagination: request pages at the running offset until a page
\* is empty; fetch_data returns None when the request fails (request number
\* failAt, 0 = no failure), which ends the loop with what was gathered so far.
RECURSIVE PaginateFrom(_, _, _, _, _, _)
PaginateFrom(src, limit, from, request, failAt, gathered) ==
    IF request = failAt THEN gathered
    ELSE LET current_data == Page(src, from, limit)
         IN  IF Len(current_data) = 0 THEN gathered
             ELSE PaginateFrom(src, limit, from + Len(current_data),
                               request + 1, failAt, gathered \o current_data)

fetch_data_with_pagination(src, limit, failAt) ==
    PaginateFrom(src, limit, 0, 1, failAt, <<>>)

\* The requests a fetch of src issues when none fails: one per non-empty page and
\* one for the empty page that ends the loop.
RequestsOf(src, limit) == (Len(src) + limit - 1) \div limit + 1

\* ------------------------------------------------------------------ Init
Ended == {"returned", "done", "exited", "crashed"}

\* An exported file: its lines, each identified with its 1-based number.  Whether
\* a line is a record or text that json.loads rejects is drawn when the line
\* is parsed.
ImportFiles == {Interval(1, n) : n \in 0..MaxIssues}

\* The names of the exported files an import can be given as args.filename: the
\* export of one (project, status filter) and the export of another.
Filenames == {"A_issues.json", "B_issues.json"}

\* The state before the first run of the export or of the import.
\* Every sequence over S of length up to n.
SeqsUpTo(S, n) == UNION {[1..m -> S] : m \in 0..n}

\* A journal as its handlers see it: an object with notes, an object without,
\* or something that is no object.
JournalKinds == {"notes", "empty", "no_dict"}

\* The file of an attachment under attachments/<issue-id>/: not there, there
\* but empty (a write that was cut short), or there in full.
FileStates == {"absent", "empty", "full"}

\* The staging directory of an issue with up to MaxAttachments attachments, as
\* an earlier run may have left it.
StagingDirs ==
    UNION {[exists : {TRUE}, files : [1..n -> FileStates]]
               \cup {[exists |-> FALSE, files |-> [k \in 1..n |-> "absent"]]} :
           n \in 0..MaxAttachments}

\* The types a value of the export file can have, as isinstance tells them
\* apart: None, str, int.
Types == {"none", "str", "int"}

\* The fields of issue_data["issue"] the payload is built from, and one field
\* the importer has no mapping for.
SourceFields ==
    {"subject", "description", "start_date", "due_date", "created_on",
     "updated_on", "closed_on", "estimated_hours", "done_ratio"}

\* The values of the free-text fields: those of Types, and "script", a str
\* whose text holds markup that html.escape rewrites (<script>).
TextFields == {"subject", "description"}

SourceValues == Types \cup {"script"}

SourceItems ==
    {item \in [SourceFields -> SourceValues] :
        \A field_name \in SourceFields \ TextFields :
           item[field_name] \in Types}

PipelineInit(programs) ==
    /\ prog \in programs
    /\ runs = 0
    /\ pc = "idle"
    /\ user_choice = "none"
    /\ processed = <<>>
    /\ progress_at_start = NoFile
    /\ previous_end = "none"
    /\ source \in IF prog \in {"exporter", "main"}
                 THEN {Interval(1, n) : n \in 0..MaxIssues}
                 ELSE IF prog = "export_run"
                 THEN {Interval(1, n) : n \in 0..MaxItems}
                 ELSE {<<>>}
    /\ files \in IF prog \in {"importer", "importer_run"}
                THEN [Filenames -> ImportFiles]
                ELSE {[f \in Filenames |-> <<>>]}
    /\ filename = "none"
    /\ previous_filename = "none"
    /\ lines = <<>>
    /\ output_file = NoFile
    /\ progress_file = NoFile
    /\ current_issue_index = 0
    /\ issues = <<>>
    /\ i = 0
    /\ loop_error = FALSE
    /\ fetches = 0
    /\ fetch_failed = FALSE
    /\ output_at_start = NoFile
    /\ checkpoint_file = NoFile
    /\ checkpoint_source = "none"
    /\ start_from_checkpoint = FALSE
    /\ checkpoint_id = 0
    /\ line_num = 0
    /\ created = <<>>
    /\ create_requests = <<>>
    /\ created_at_start = 0
    /\ run_args = <<>>
    /\ file_names = <<>>
    /\ served = <<>>
    /\ requested = <<>>
    /\ data = <<>>
    /\ offset = 0
    /\ clock = 0
    /\ delay \in IF prog = "limiter" THEN 1..MaxDelay ELSE {0}
    /\ last_request_time = 0
    /\ lock = 0
    /\ thread_pc = [t \in 1..MaxThreads |-> "idle"]
    /\ remaining_time = [t \in 1..MaxThreads |-> 0]
    /\ wake_at = [t \in 1..MaxThreads |-> 0]
    /\ calls = 0
    /\ read_last = [t \in 1..MaxThreads |-> 0]
    /\ grants = <<>>
    /\ issue_data = [author |-> FALSE, assigned_to |-> FALSE,
                     attachments |-> <<>>, journals |-> <<>>]
    /\ attachment_no = 0
    /\ journal_no = 0
    /\ outbound = <<>>
    /\ journals = [ok |-> FALSE, entries |-> <<>>]
    /\ staged = [k \in 1..MaxItems |-> <<>>]
    /\ answers = <<>>
    /\ jira_issue_key = "unbound"
    /\ failure = [step |-> "none", kind |-> "none", status |-> 0]
    /\ log = <<>>
    /\ unauthorized = FALSE
    /\ considered = <<>>
    /\ completion_log = FALSE
    /\ fields \in IF prog = "payload"
                 THEN SourceItems
                 ELSE {<<>>}
    /\ jira_issue = <<>>
    /\ old_priority_name = "none"
    /\ staging \in IF prog \in {"fetch_attachments", "main_fetch_attachments"}
                  THEN StagingDirs
                  ELSE {[exists |-> FALSE, files |-> <<>>]}
    /\ staging_at_start = staging
    /\ downloads = <<>>
    /\ source_journals \in IF prog = "journals_replay"
                          THEN SeqsUpTo(JournalKinds, MaxJournals)
                          ELSE {<<>>}
    /\ comments_sent = <<>>
    /\ args_status = <<>>
    /\ params = <<>>
    /\ issue_status = ""
    /\ target_status = ""
    /\ transitions = <<>>
    /\ transition_id = "None"
    /\ user_search = [reporter |-> "unnamed", assignee |-> "unnamed"]
    /\ importer_args = [project |-> FALSE, activate_extraction |-> FALSE]

Init == PipelineInit({"exporter", "main", "importer"})

\* ------------------------------------------- exporter: RedmineExporter.run
\* run() up to the prompt: the output file decides whether the prompt is shown.
ExpRun ==
    /\ prog = "exporter"
    /\ runs < MaxRuns
    /\ pc \in Ended \cup {"idle"}
    /\ runs' = runs + 1
    /\ user_choice' = "none"
    /\ issues' = <<>>
    /\ i' = 0
    /\ loop_error' = FALSE
    /\ fetches' = 0
    /\ fetch_failed' = FALSE
    /\ processed' = <<>>
    /\ output_at_start' = output_file
    /\ progress_at_start' = progress_file
    /\ previous_end' = pc
    /\ current_issue_index' = 0
    /\ pc' = IF output_file.exists THEN "gate" ELSE "fetch"
    /\ UNCHANGED <<prog, source, output_file, progress_file, impVars, nameVars,
                   compVars>>
    /\ completion_log' = FALSE

\* Choice "1": os.remove(output_file); os.remove(progress_file).  The second
\* remove raises FileNotFoundError when there is no progress file; nothing
\* catches it, and the output file is gone by then.
ExpGateReset ==
    /\ prog = "exporter" /\ pc = "gate"
    /\ user_choice' = "1"
    /\ output_file' = NoFile
    /\ IF progress_file.exists
       THEN /\ progress_file' = NoFile
            /\ current_issue_index' = 0
            /\ pc' = "fetch"
       ELSE /\ pc' = "crashed"
            /\ UNCHANGED <<progress_file, current_issue_index>>
    /\ UNCHANGED <<prog, runs, source, issues, i, loop_error, fetches,
                   fetch_failed, processed, output_at_start, progress_at_start,
                   previous_end, impVars, nameVars, auxVars>>

\* A resume that does not consult the progress file.
ExpGateResumeIgnoresCheckpoint ==
    /\ prog = "exporter" /\ pc = "gate"
    /\ user_choice' = "2"
    /\ current_issue_index' = 0
    /\ pc' = "fetch"
    /\ UNCHANGED <<prog, runs, source, output_file, progress_file, issues, i,
                   loop_error, fetches, fetch_failed, processed,
                   output_at_start, progress_at_start, previous_end, impVars,
                   nameVars, auxVars>>

\* Choice "2": current_issue_index = load_progress(progress_file).
ExpGateResume ==
    /\ prog = "exporter" /\ pc = "gate"
    /\ user_choice' = "2"
    /\ current_issue_index' = load_progress(progress_file)
    /\ pc' = "fetch"
    /\ UNCHANGED <<prog, runs, source, output_file, progress_file, issues, i,
                   loop_error, fetches, fetch_failed, processed,
                   output_at_start, progress_at_start, previous_end, impVars,
                   nameVars, auxVars>>

\* A prompt whose else branch lacks its return: an unrecognised choice falls
\* through to the fetch.
ExpGateExitFallsThrough ==
    /\ prog = "exporter" /\ pc = "gate"
    /\ \E choice \in {"3", "other", "^C"} :
          /\ user_choice' = choice
          /\ pc' = IF choice = "other" THEN "fetch" ELSE "returned"
    /\ UNCHANGED <<prog, runs, processed, progress_at_start, previous_end,
                   expVars, impVars, nameVars, auxVars>>

\* Choice "3", any other text, or Ctrl-C at the prompt: return.
ExpGateExit ==
    /\ prog = "exporter" /\ pc = "gate"
    /\ \E choice \in {"3", "other", "^C"} : user_choice' = choice
    /\ pc' = "returned"
    /\ UNCHANGED <<prog, runs, processed, progress_at_start, previous_end,
                   expVars, impVars, nameVars, auxVars>>

\* issues = self.fetch_issues(...); then the loop over issues[current_issue_index:]
\* is entered with i = current_issue_index + 1, or skipped when nothing is left.
ExpFetch ==
    /\ prog = "exporter" /\ pc = "fetch"
    /\ \E failAt \in 0..RequestsOf(source, PageLimit) :
          /\ issues' = fetch_data_with_pagination(source, PageLimit, failAt)
          /\ fetch_failed' = (failAt /= 0)
    /\ fetches' = fetches + 1
    /\ IF current_issue_index < Len(issues')
       THEN i' = current_issue_index + 1 /\ pc' = "process"
       ELSE i' = i /\ pc' = "done"
    /\ UNCHANGED <<prog, runs, source, output_file, progress_file, user_choice,
                   current_issue_index, loop_error, processed, output_at_start,
                   progress_at_start, previous_end, impVars, nameVars,
                   compVars>>
    /\ completion_log' = (pc' = "done")

\* export_data: append the record to the output file; IOError, TypeError and any
\* other exception are caught and logged, and nothing is appended.
export_data(file, record, ok) ==
    IF ok THEN [exists |-> TRUE, text |-> Append(file.text, record)] ELSE file

\* Where the for loop goes after the body of item k of list.
ExpNext(k, list) == IF k < Len(list) THEN "process" ELSE "done"

\* A loop body that, when the record could not be written, goes on to the next
\* item without saving the progress.
ExpProcessIssueNoSaveOnFailure ==
    /\ prog = "exporter" /\ pc = "process"
    /\ \E ok \in BOOLEAN :
          /\ output_file' = export_data(output_file, issues[i], ok)
          /\ pc' = IF ok THEN "wait" ELSE ExpNext(i, issues)
          /\ i' = IF ~ok /\ i < Len(issues) THEN i + 1 ELSE i
    /\ processed' = Append(processed, i)
    /\ UNCHANGED <<prog, runs, source, progress_file, user_choice,
                   current_issue_index, issues, loop_error, fetches,
                   fetch_failed, output_at_start, progress_at_start,
                   previous_end, impVars, nameVars, compVars>>
    /\ completion_log' = (pc' = "done")

\* process_issue(issue, output_file): journals and attachments are fetched
\* (their failures degrade to None), the record is prepared and exported; every
\* exception except KeyboardInterrupt is caught and logged inside, so the call
\* returns normally whether or not the record was written.
ExpProcessIssue ==
    /\ prog = "exporter" /\ pc = "process"
    /\ \E ok \in BOOLEAN : output_file' = export_data(output_file, issues[i], ok)
    /\ processed' = Append(processed, i)
    /\ pc' = "wait"
    /\ UNCHANGED <<prog, runs, source, progress_file, user_choice,
                   current_issue_index, issues, i, loop_error, fetches,
                   fetch_failed, output_at_start, progress_at_start,
                   previous_end, impVars, nameVars, auxVars>>

\* Ctrl-C while process_issue is fetching: re-raised (line 335), run() exits.
ExpInterruptProcess ==
    /\ prog = "exporter" /\ pc = "process"
    /\ processed' = Append(processed, i)
    /\ pc' = "exited"
    /\ UNCHANGED <<prog, runs, user_choice, progress_at_start, previous_end,
                   expVars, impVars, nameVars, auxVars>>

\* rate_limiter.wait() returns.
ExpWait ==
    /\ prog = "exporter" /\ pc = "wait"
    /\ pc' = "save"
    /\ UNCHANGED <<prog, runs, user_choice, processed, progress_at_start,
                   previous_end, expVars, impVars, nameVars, auxVars>>

\* Ctrl-C (or a kill) while the rate limiter sleeps, that is after the record
\* was written and before save_progress: sys.exit(0).
ExpInterruptWait ==
    /\ prog = "exporter" /\ pc = "wait"
    /\ pc' = "exited"
    /\ UNCHANGED <<prog, runs, user_choice, processed, progress_at_start,
                   previous_end, expVars, impVars, nameVars, auxVars>>

\* self.save_progress(i, progress_file), then the next item or the completion log.
ExpSaveProgress ==
    /\ prog = "exporter" /\ pc = "save"
    /\ progress_file' = save_progress(i, progress_file)
    /\ pc' = ExpNext(i, issues)
    /\ i' = IF i < Len(issues) THEN i + 1 ELSE i
    /\ UNCHANGED <<prog, runs, source, output_file, user_choice,
                   current_issue_index, issues, loop_error, fetches,
                   fetch_failed, processed, output_at_start, progress_at_start,
                   previous_end, impVars, nameVars, compVars>>
    /\ completion_log' = (pc' = "done")

\* save_progress cannot open the progress file: the IOError leaves the loop
\* through `except Exception` (line 433) and the run logs its completion.
ExpSaveFails ==
    /\ prog = "exporter" /\ pc = "save"
    /\ loop_error' = TRUE
    /\ pc' = "done"
    /\ UNCHANGED <<prog, runs, source, output_file, progress_file, user_choice,
                   current_issue_index, issues, i, fetches, fetch_failed,
                   processed, output_at_start, progress_at_start, previous_end,
                   impVars, nameVars, compVars>>
    /\ completion_log' = (pc' = "done")

ExporterNext ==
    \/ ExpRun
    \/ ExpGateReset
    \/ ExpGateResume
    \/ ExpGateExit
    \/ ExpFetch
    \/ ExpProcessIssue
    \/ ExpInterruptProcess
    \/ ExpWait
    \/ ExpInterruptWait
    \/ ExpSaveProgress
    \/ ExpSaveFails

\* ----------------------------------- src/main.py: RedmineExporter.main
\* The earlier, single-file exporter.  It keeps the same two files and the same
\* prompt; its loop body is one try block per item.
\* main() up to the prompt.
MainRun ==
    /\ prog = "main"
    /\ runs < MaxRuns
    /\ pc \in Ended \cup {"idle"}
    /\ runs' = runs + 1
    /\ user_choice' = "none"
    /\ issues' = <<>>
    /\ i' = 0
    /\ loop_error' = FALSE
    /\ fetches' = 0
    /\ fetch_failed' = FALSE
    /\ processed' = <<>>
    /\ output_at_start' = output_file
    /\ progress_at_start' = progress_file
    /\ previous_end' = pc
    /\ current_issue_index' = 0
    /\ pc' = IF output_file.exists THEN "gate" ELSE "fetch"
    /\ UNCHANGED <<prog, source, output_file, progress_file, impVars, nameVars,
                   compVars>>
    /\ completion_log' = FALSE

\* Choice "1": os.remove(output_file); os.remove(progress_file), the second of
\* which raises FileNotFoundError when there is no progress file.
MainGateReset ==
    /\ prog = "main" /\ pc = "gate"
    /\ user_choice' = "1"
    /\ output_file' = NoFile
    /\ IF progress_file.exists
       THEN /\ progress_file' = NoFile
            /\ current_issue_index' = 0
            /\ pc' = "fetch"
       ELSE /\ pc' = "crashed"
            /\ UNCHANGED <<progress_file, current_issue_index>>
    /\ UNCHANGED <<prog, runs, source, issues, i, loop_error, fetches,
                   fetch_failed, processed, output_at_start, progress_at_start,
                   previous_end, impVars, nameVars, auxVars>>

\* Choice "2": current_issue_index = self.load_progress(progress_file).
MainGateResume ==
    /\ prog = "main" /\ pc = "gate"
    /\ user_choice' = "2"
    /\ current_issue_index' = load_progress(progress_file)
    /\ pc' = "fetch"
    /\ UNCHANGED <<prog, runs, source, output_file, progress_file, issues, i,
                   loop_error, fetches, fetch_failed, processed,
                   output_at_start, progress_at_start, previous_end, impVars,
                   nameVars, auxVars>>

\* Choice "3" or any other text: return.  Ctrl-C at the prompt is not caught.
MainGateExit ==
    /\ prog = "main" /\ pc = "gate"
    /\ \E choice \in {"3", "other", "^C"} :
          /\ user_choice' = choice
          /\ pc' = IF choice = "^C" THEN "crashed" ELSE "returned"
    /\ UNCHANGED <<prog, runs, processed, progress_at_start, previous_end,
                   expVars, impVars, nameVars, auxVars>>

\* issues = self.fetch_issues(...): the whole list, or sys.exit(1) when a
\* request fails; then the loop over issues[current_issue_index:].
MainFetch ==
    /\ prog = "main" /\ pc = "fetch"
    /\ fetches' = fetches + 1
    /\ \E failed \in BOOLEAN :
          IF failed
          THEN /\ pc' = "exited"
               /\ fetch_failed' = TRUE
               /\ UNCHANGED <<issues, i>>
          ELSE /\ issues' = source
               /\ fetch_failed' = FALSE
               /\ IF current_issue_index < Len(source)
                  THEN i' = current_issue_index + 1 /\ pc' = "process"
                  ELSE i' = i /\ pc' = "done"
    /\ UNCHANGED <<prog, runs, source, output_file, progress_file, user_choice,
                   current_issue_index, loop_error, processed, output_at_start,
                   progress_at_start, previous_end, impVars, nameVars,
                   compVars>>
    /\ completion_log' = (pc' = "done")

\* The try block of item i up to the rate limiter: export_data appends the
\* record, or raises; the exception is logged and the loop goes on to the next
\* item, past rate_limiter.wait() and save_progress.
MainExport ==
    /\ prog = "main" /\ pc = "process"
    /\ processed' = Append(processed, i)
    /\ \E ok \in BOOLEAN :
          /\ output_file' = export_data(output_file, issues[i], ok)
          /\ pc' = IF ok THEN "wait" ELSE ExpNext(i, issues)
          /\ i' = IF ~ok /\ i < Len(issues) THEN i + 1 ELSE i
    /\ UNCHANGED <<prog, runs, source, progress_file, user_choice,
                   current_issue_index, issues, loop_error, fetches,
                   fetch_failed, output_at_start, progress_at_start,
                   previous_end, impVars, nameVars, compVars>>
    /\ completion_log' = (pc' = "done")

\* rate_limiter.wait() returns.
MainWait ==
    /\ prog = "main" /\ pc = "wait"
    /\ pc' = "save"
    /\ UNCHANGED <<prog, runs, user_choice, processed, progress_at_start,
                   previous_end, expVars, impVars, nameVars, auxVars>>

\* Ctrl-C during the item: nothing in main() catches KeyboardInterrupt.
MainInterrupt ==
    /\ prog = "main" /\ pc \in {"process", "wait", "save"}
    /\ processed' = IF pc = "process" THEN Append(processed, i) ELSE processed
    /\ pc' = "crashed"
    /\ UNCHANGED <<prog, runs, user_choice, progress_at_start, previous_end,
                   expVars, impVars, nameVars, auxVars>>

\* self.save_progress(i, progress_file), or its IOError, logged by the same
\* except clause; either way the next item follows.
MainSaveProgress ==
    /\ prog = "main" /\ pc = "save"
    /\ \E ok \in BOOLEAN :
          progress_file' = IF ok THEN save_progress(i, progress_file)
                           ELSE progress_file
    /\ pc' = ExpNext(i, issues)
    /\ i' = IF i < Len(issues) THEN i + 1 ELSE i
    /\ UNCHANGED <<prog, runs, source, output_file, user_choice,
                   current_issue_index, issues, loop_error, fetches,
                   fetch_failed, processed, output_at_start, progress_at_start,
                   previous_end, impVars, nameVars, compVars>>
    /\ completion_log' = (pc' = "done")

MainNext ==
    \/ MainRun
    \/ MainGateReset
    \/ MainGateResume
    \/ MainGateExit
    \/ MainFetch
    \/ MainExport
    \/ MainWait
    \/ MainInterrupt
    \/ MainSaveProgress

\* -------------------------------------- importer: JiraImporter.import_issues
\* import_issues() up to the prompt: the checkpoint file decides whether the
\* prompt is shown.
ImpRun ==
    /\ prog = "importer"
    /\ runs < MaxRuns
    /\ pc \in Ended \cup {"idle"}
    /\ runs' = runs + 1
    /\ user_choice' = "none"
    /\ processed' = <<>>
    /\ progress_at_start' = checkpoint_file
    /\ previous_end' = pc
    /\ created_at_start' = Len(created)
    /\ start_from_checkpoint' = FALSE
    /\ checkpoint_id' = 0
    /\ line_num' = 0
    /\ create_requests' = <<>>
    /\ \E f \in Filenames :
          /\ filename' = f
          /\ lines' = files[f]
    /\ previous_filename' = filename
    /\ pc' = IF checkpoint_file.exists THEN "gate" ELSE "read"
    /\ UNCHANGED <<prog, files, checkpoint_file, checkpoint_source, created,
                   expVars, nameVars, compVars>>
    /\ completion_log' = FALSE

\* Choice "1": os.remove(checkpoint_file).
ImpGateReset ==
    /\ prog = "importer" /\ pc = "gate"
    /\ user_choice' = "1"
    /\ checkpoint_file' = NoFile
    /\ checkpoint_source' = "none"
    /\ pc' = "read"
    /\ UNCHANGED <<prog, runs, processed, progress_at_start, previous_end,
                   fileVars, lines, start_from_checkpoint, checkpoint_id,
                   line_num, created, create_requests, created_at_start,
                   expVars, nameVars, auxVars>>

\* Choice "2": checkpoint_id = int(f.read()); start_from_checkpoint = True.
ImpGateResume ==
    /\ prog = "importer" /\ pc = "gate"
    /\ user_choice' = "2"
    /\ checkpoint_id' = int(checkpoint_file.text)
    /\ start_from_checkpoint' = TRUE
    /\ pc' = "read"
    /\ UNCHANGED <<prog, runs, processed, progress_at_start, previous_end,
                   fileVars, lines, checkpoint_file, checkpoint_source,
                   line_num, created, create_requests, created_at_start,
                   expVars, nameVars, auxVars>>

\* Choice "3" or any other text: return.  Ctrl-C at this prompt is outside the
\* try block: the KeyboardInterrupt ends the program.
ImpGateExit ==
    /\ prog = "importer" /\ pc = "gate"
    /\ \E choice \in {"3", "other", "^C"} :
          /\ user_choice' = choice
          /\ pc' = IF choice = "^C" THEN "crashed" ELSE "returned"
    /\ UNCHANGED <<prog, runs, processed, progress_at_start, previous_end,
                   expVars, impVars, nameVars, auxVars>>

\* A skip test that stops one line short of the checkpoint.
SkipsLineStrict(resuming, num, checkpoint) == resuming /\ num < checkpoint

\* if start_from_checkpoint and line_num <= checkpoint_id: continue
SkipsLine(resuming, num, checkpoint) == resuming /\ num <= checkpoint

\* for line_num, line in enumerate(f, 1): a line at or below the checkpoint of
\* a resumed run is skipped.
ImpSkipLine ==
    /\ prog = "importer" /\ pc = "read"
    /\ line_num < Len(lines)
    /\ SkipsLine(start_from_checkpoint, line_num + 1, checkpoint_id)
    /\ line_num' = line_num + 1
    /\ UNCHANGED <<prog, runs, pc, user_choice, processed, progress_at_start,
                   previous_end, fileVars, lines, checkpoint_file,
                   checkpoint_source, start_from_checkpoint, checkpoint_id,
                   created, create_requests, created_at_start, expVars,
                   nameVars, auxVars>>

\* The next line is taken: json.loads(line), then issues_setup(issue_data).
ImpTakeLine ==
    /\ prog = "importer" /\ pc = "read"
    /\ line_num < Len(lines)
    /\ ~SkipsLine(start_from_checkpoint, line_num + 1, checkpoint_id)
    /\ line_num' = line_num + 1
    /\ processed' = Append(processed, line_num + 1)
    /\ pc' = "item"
    /\ UNCHANGED <<prog, runs, user_choice, progress_at_start, previous_end,
                   fileVars, lines, checkpoint_file, checkpoint_source,
                   start_from_checkpoint, checkpoint_id, created,
                   create_requests, created_at_start, expVars, nameVars,
                   auxVars>>

\* The file is exhausted: import_issues returns.
ImpEndOfFile ==
    /\ prog = "importer" /\ pc = "read"
    /\ line_num = Len(lines)
    /\ pc' = "done"
    /\ UNCHANGED <<prog, runs, user_choice, processed, progress_at_start,
                   previous_end, expVars, impVars, nameVars, auxVars>>

\* json.loads(line) raises: the error and the skipped line are logged.
ImpBadLine ==
    /\ prog = "importer" /\ pc = "item"
    /\ pc' = "checkpoint"
    /\ UNCHANGED <<prog, runs, user_choice, processed, progress_at_start,
                   previous_end, expVars, impVars, nameVars, auxVars>>

\* issues_setup up to the creation request: the rate limiter is entered and the
\* payload is built (identity lookups and field handlers catch their own
\* errors).  A record that is no dict or lacks a key the payload needs raises
\* inside `with self.rate_limiter:`, whose __exit__ swallows the exception:
\* issues_setup returns without a request.
ImpSetup ==
    /\ prog = "importer" /\ pc = "item"
    /\ \E ok \in BOOLEAN : pc' = IF ok THEN "create" ELSE "checkpoint"
    /\ UNCHANGED <<prog, runs, user_choice, processed, progress_at_start,
                   previous_end, expVars, impVars, nameVars, auxVars>>

\* requests.post(f"{jira_url}issue/", ...).  Answered 2xx, the issue exists at
\* the destination; the attachments follow unless the response body is not JSON
\* (logged, return).  Any failure is raised inside `with self.rate_limiter:`,
\* whose __exit__ swallows it: issues_setup returns normally.
ImpCreate ==
    /\ prog = "importer" /\ pc = "create"
    /\ create_requests' = Append(create_requests, line_num)
    /\ \E answer \in {"created", "created_bad_body", "failed"} :
          /\ created' = IF answer = "failed" THEN created
                        ELSE Append(created, line_num)
          /\ pc' = IF answer = "created" THEN "attachments" ELSE "checkpoint"
    /\ UNCHANGED <<prog, runs, user_choice, processed, progress_at_start,
                   previous_end, fileVars, lines, checkpoint_file,
                   checkpoint_source, start_from_checkpoint, checkpoint_id,
                   line_num, created_at_start, expVars, nameVars, auxVars>>

\* handle_attachments, the handle_journals loop, the status transition: each
\* either succeeds and the next step follows, or raises, and then the rest of
\* issues_setup is skipped (the exception is swallowed by __exit__).
ImpAfterCreate ==
    /\ prog = "importer" /\ pc \in {"attachments", "journals", "transition"}
    /\ \E ok \in BOOLEAN :
          pc' = IF ~ok THEN "checkpoint"
                ELSE CASE pc = "attachments" -> "journals"
                       [] pc = "journals" -> "transition"
                       [] pc = "transition" -> "checkpoint"
    /\ UNCHANGED <<prog, runs, user_choice, processed, progress_at_start,
                   previous_end, expVars, impVars, nameVars, auxVars>>

\* Ctrl-C while an item is in flight: __exit__ lets KeyboardInterrupt through,
\* `except Exception` does not catch it, and import_issues calls sys.exit(0).
\* The checkpoint of the line in flight is not written.
ImpInterrupt ==
    /\ prog = "importer"
    /\ pc \in {"item", "create", "attachments", "journals", "transition", "checkpoint"}
    /\ pc' = "exited"
    /\ UNCHANGED <<prog, runs, user_choice, processed, progress_at_start,
                   previous_end, expVars, impVars, nameVars, auxVars>>

\* checkpoint_id = line_num; the checkpoint file is rewritten with str(checkpoint_id).
ImpCheckpoint ==
    /\ prog = "importer" /\ pc = "checkpoint"
    /\ checkpoint_id' = line_num
    /\ checkpoint_file' = save_progress(line_num, checkpoint_file)
    /\ checkpoint_source' = filename
    /\ pc' = "read"
    /\ UNCHANGED <<prog, runs, user_choice, processed, progress_at_start,
                   previous_end, fileVars, lines, start_from_checkpoint,
                   line_num, created, create_requests, created_at_start,
                   expVars, nameVars, auxVars>>

ImporterNext ==
    \/ ImpRun
    \/ ImpGateReset
    \/ ImpGateResume
    \/ ImpGateExit
    \/ ImpSkipLine
    \/ ImpTakeLine
    \/ ImpEndOfFile
    \/ ImpBadLine
    \/ ImpSetup
    \/ ImpCreate
    \/ ImpAfterCreate
    \/ ImpInterrupt
    \/ ImpCheckpoint

Next == ExporterNext \/ MainNext \/ ImporterNext

Spec == Init /\ [][Next]_vars

\* ----------------------------------------------- the checkpoint store alone
\* save_progress, load_progress and os.remove applied to one progress file, in
\* any order and with any index: i is the index last saved and
\* current_issue_index the value last loaded, as in run().
CheckpointInit ==
    /\ PipelineInit({"checkpoint"})

CkSave ==
    /\ prog = "checkpoint"
    /\ \E n \in 0..MaxIndex :
          /\ i' = n
          /\ progress_file' = save_progress(n, progress_file)
    /\ pc' = "saved"
    /\ UNCHANGED <<prog, runs, user_choice, processed, progress_at_start,
                   previous_end, source, output_file, current_issue_index,
                   issues, loop_error, fetches, fetch_failed, output_at_start,
                   impVars, nameVars, auxVars>>

CkLoad ==
    /\ prog = "checkpoint"
    /\ current_issue_index' = load_progress(progress_file)
    /\ pc' = "loaded"
    /\ UNCHANGED <<prog, runs, user_choice, processed, progress_at_start,
                   previous_end, source, output_file, progress_file, issues, i,
                   loop_error, fetches, fetch_failed, output_at_start, impVars,
                   nameVars, auxVars>>

CkRemove ==
    /\ prog = "checkpoint"
    /\ progress_file.exists
    /\ progress_file' = NoFile
    /\ pc' = "removed"
    /\ UNCHANGED <<prog, runs, user_choice, processed, progress_at_start,
                   previous_end, source, output_file, current_issue_index,
                   issues, i, loop_error, fetches, fetch_failed,
                   output_at_start, impVars, nameVars, auxVars>>

CheckpointNext == CkSave \/ CkLoad \/ CkRemove

SpecCheckpoint == CheckpointInit /\ [][CheckpointNext]_vars

\* ------------------------------------- the file names of an export run alone
\* str.replace(' ', '-')
RECURSIVE replace(_, _, _)
replace(s, old, new) ==
    IF s = <<>> THEN <<>>
    ELSE <<IF Head(s) = old THEN new ELSE Head(s)>> \o replace(Tail(s), old, new)

any == <<"a", "n", "y">>

\* self.status_name_map: status id -> name, ids 1..12.
status_name_map == <<
    <<"N", "e", "w">>,
    <<"I", "n", "-", "P", "r", "o", "g", "r", "e", "s", "s">>,
    <<"R", "e", "a", "d", "y", "-", "f", "o", "r", "-", "T", "e", "s",
        "t", "i", "n", "g">>,
    <<"F", "e", "e", "d", "b", "a", "c", "k">>,
    <<"C", "l", "o", "s", "e", "d">>,
    <<"R", "e", "j", "e", "c", "t", "e", "d">>,
    <<"A", "p", "p", "r", "o", "v", "e", "d">>,
    <<"R", "e", "-", "O", "p", "e", "n", "e", "d">>,
    <<"W", "o", "n", "t", "-", "F", "i", "x">>,
    <<"O", "n", "-", "H", "o", "l", "d">>,
    <<"R", "e", "s", "o", "l", "v", "e", "d">>,
    <<"I", "n", " ", "V", "i", "e", "w">>>>

\* self.status_name_map.get(status_id, "any"); args.status is None (<<>>) or an
\* int (<<n>>).
status_name_map_get(status) ==
    IF status /= <<>> /\ status[1] \in DOMAIN status_name_map
    THEN status_name_map[status[1]]
    ELSE any

\* run(): output_file and progress_file of (args.project, args.status).
FileNames(project, status) ==
    LET status_name == replace(status_name_map_get(status), " ", "-")
        project_name == replace(project, " ", "-")
        stem == project_name \o <<"_">> \o status_name
    IN  [output_file |-> stem \o <<"_issues.json">>,
         progress_file |-> stem \o <<"_progress.log">>]

\* main(): the file names of src/main.py's exporter depend on args.status alone.
MainFileNames(project, status) ==
    LET stem == IF status = <<1>> THEN <<"redmine_open">>
                ELSE IF status = <<2>> THEN <<"redmine_closed">>
                ELSE <<"redmine_any">>
    IN  [output_file |-> stem \o <<"_issues.json">>,
         progress_file |-> stem \o <<"_progress.log">>]

\* Project names: non-empty strings (run() returns at once without a project).
ProjectChars == {"a", " ", "-"}

Projects == UNION {[1..n -> ProjectChars] : n \in 1..MaxProjectLen}

\* --status: absent, one of the ids of status_name_map, or an id it lacks.
Statuses == {<<>>} \cup {<<n>> : n \in 1..13}

RunArgs == [project : Projects, status : Statuses]

NamesInit ==
    /\ PipelineInit({"names"})

\* Two export runs are given their arguments.
NamesArgs ==
    /\ prog = "names" /\ pc = "idle"
    /\ run_args' \in [1..2 -> RunArgs]
    /\ pc' = "args"
    /\ UNCHANGED <<prog, runs, user_choice, processed, progress_at_start,
                   previous_end, expVars, impVars, file_names, auxVars>>

\* Each computes its file names.
NamesCompute ==
    /\ prog = "names" /\ pc = "args"
    /\ file_names' = [r \in 1..2 |->
           [run |-> FileNames(run_args[r].project, run_args[r].status),
            main |-> MainFileNames(run_args[r].project, run_args[r].status)]]
    /\ pc' = "named"
    /\ UNCHANGED <<prog, runs, user_choice, processed, progress_at_start,
                   previous_end, expVars, impVars, run_args, auxVars>>

NamesNext == NamesArgs \/ NamesCompute

SpecNames == NamesInit /\ [][NamesNext]_vars

\* ------------------------------------------------- the list fetch alone
\* The two pagination loops, each against a source that answers every request
\* as it pleases: a page of up to PageLimit items with any total_count, or a
\* failure.  The source is finite: after MaxPages non-empty pages, or once it
\* has served an empty page, it has only empty pages left.  Items are numbered
\* in the order they are served.
MainLimit == 100

\* Concatenation of the pages of a sequence of responses.
RECURSIVE Concat(_)
Concat(responses) ==
    IF responses = <<>> THEN <<>>
    ELSE Concat(SubSeq(responses, 1, Len(responses) - 1))
             \o responses[Len(responses)].issues

\* The source has run dry.
Dry ==
    \/ Cardinality({k \in 1..Len(served) : served[k].issues /= <<>>}) >= MaxPages
    \/ \E k \in 1..Len(served) : served[k].ok /\ served[k].issues = <<>>

\* What the source may answer to the next request.
Responses ==
    LET received == Len(Concat(served))
        sizes == IF Dry THEN {0} ELSE 0..PageLimit
    IN  {[ok |-> TRUE, issues |-> Interval(received + 1, received + n),
          total_count |-> t] : n \in sizes, t \in 0..MaxTotal}
        \cup {[ok |-> FALSE, issues |-> <<>>, total_count |-> 0]}

PagingInit ==
    /\ PipelineInit({"pagination", "fetch_issues"})

\* data = []; offset = 0 (issues = []; offset = 0; total_count = 0 in main.py).
PagCall ==
    /\ prog \in {"pagination", "fetch_issues"} /\ pc = "idle"
    /\ data' = <<>>
    /\ offset' = 0
    /\ pc' = "loop"
    /\ UNCHANGED <<prog, runs, user_choice, processed, progress_at_start,
                   previous_end, expVars, impVars, nameVars, served, requested,
                   limVars, detVars, subVars, itemVars, extVars>>

\* An offset that advances by the page size asked for.
NextOffsetByLimit(from, current_data) == from + PageLimit

\* offset += len(current_data)
NextOffset(from, current_data) == from + Len(current_data)

\* One turn of the loop of fetch_data_with_pagination: the request at the
\* current offset; fetch_data gives None on a RequestException (break); else
\* the page is appended, an empty page ends the loop, and the offset advances
\* by the number of items received.
PagIteration ==
    /\ prog = "pagination" /\ pc = "loop"
    /\ requested' = Append(requested, offset)
    /\ \E response_data \in Responses :
          /\ served' = Append(served, response_data)
          /\ IF ~response_data.ok
             THEN pc' = "returned" /\ UNCHANGED <<data, offset>>
             ELSE LET current_data == response_data.issues
                  IN  /\ data' = data \o current_data
                      /\ IF Len(current_data) = 0
                         THEN pc' = "returned" /\ offset' = offset
                         ELSE pc' = pc
                              /\ offset' = NextOffset(offset, current_data)
    /\ UNCHANGED <<prog, runs, user_choice, processed, progress_at_start,
                   previous_end, expVars, impVars, nameVars, limVars, detVars,
                   subVars, itemVars, extVars>>

\* One turn of the loop of fetch_issues in src/main.py: a RequestException is
\* fatal (sys.exit(1)); else the page is appended, the loop ends when
\* len(issues) >= total_count, and the offset advances by the limit.
MainPagIteration ==
    /\ prog = "fetch_issues" /\ pc = "loop"
    /\ Len(requested) < MaxRequests
    /\ requested' = Append(requested, offset)
    /\ \E response_data \in Responses :
          /\ served' = Append(served, response_data)
          /\ IF ~response_data.ok
             THEN pc' = "exited" /\ UNCHANGED <<data, offset>>
             ELSE /\ data' = data \o response_data.issues
                  /\ IF Len(data') >= response_data.total_count
                     THEN pc' = "returned" /\ offset' = offset
                     ELSE pc' = pc /\ offset' = offset + MainLimit
    /\ UNCHANGED <<prog, runs, user_choice, processed, progress_at_start,
                   previous_end, expVars, impVars, nameVars, limVars, detVars,
                   subVars, itemVars, extVars>>

PagingNext == PagCall \/ PagIteration \/ MainPagIteration

SpecPaging == PagingInit /\ [][PagingNext]_vars

\* The loop keeps running as long as it can: a request is sent whenever the
\* loop is at its top.
SpecPagingLive == SpecPaging /\ WF_vars(PagingNext)

\* ------------------------------------------------- the rate limiter alone
\* RateLimiter of src/utils/_ratelimiter.py, built at clock 0 with some delay
\* and shared by threads that call wait().  Thread 1 is the main thread, the
\* one a KeyboardInterrupt is raised in.
Threads == 1..MaxThreads

MainThread == CHOOSE t \in Threads : \A u \in Threads : t <= u

\* The statements of wait() that run while self.lock is held.
InLockedSection == {"read", "to_sleep", "sleep", "record", "release"}

LimiterInit ==
    /\ PipelineInit({"limiter"})

\* A lock that lets every caller in.
LockGrantsAlways(holder) == TRUE

\* threading.Lock: acquire() succeeds when no thread holds it.
LockGrants(holder) == holder = 0

\* A test that never finds a reason to sleep.
NeverSleeps(elapsed_time, d) == FALSE

\* if elapsed_time < self.delay
MustSleep(elapsed_time, d) == elapsed_time < d

\* An interrupt handler that records the window start on its way out.
RecordedOnInterrupt(last, now) == now

\* Nothing on the path of a KeyboardInterrupt assigns last_request_time.
KeptOnInterrupt(last, now) == last

\* Time passes.
LimTick ==
    /\ prog = "limiter"
    /\ clock < MaxTime
    /\ clock' = clock + 1
    /\ UNCHANGED <<prog, runs, pc, user_choice, processed, progress_at_start,
                   previous_end, expVars, impVars, nameVars, pagVars, delay,
                   last_request_time, lock, thread_pc, remaining_time, wake_at,
                   calls, read_last, grants, detVars, subVars, itemVars,
                   extVars>>

\* A thread calls wait() and reaches `with self.lock:`.
LimCall(t) ==
    /\ prog = "limiter"
    /\ thread_pc[t] \in {"idle", "interrupted"}
    /\ calls < MaxCalls
    /\ calls' = calls + 1
    /\ thread_pc' = [thread_pc EXCEPT ![t] = "lock"]
    /\ UNCHANGED <<prog, runs, pc, user_choice, processed, progress_at_start,
                   previous_end, expVars, impVars, nameVars, pagVars, clock,
                   delay, last_request_time, lock, remaining_time, wake_at,
                   read_last, grants, detVars, subVars, itemVars, extVars>>

\* with self.lock: the thread gets the lock.
LimAcquire(t) ==
    /\ prog = "limiter"
    /\ thread_pc[t] = "lock"
    /\ LockGrants(lock)
    /\ lock' = t
    /\ thread_pc' = [thread_pc EXCEPT ![t] = "read"]
    /\ UNCHANGED <<prog, runs, pc, user_choice, processed, progress_at_start,
                   previous_end, expVars, impVars, nameVars, pagVars, clock,
                   delay, last_request_time, remaining_time, wake_at, calls,
                   read_last, grants, detVars, subVars, itemVars, extVars>>

\* elapsed_time = time.perf_counter() - self.last_request_time; when it is less
\* than the delay, remaining_time = self.delay - elapsed_time.
LimRead(t) ==
    /\ prog = "limiter"
    /\ thread_pc[t] = "read"
    /\ read_last' = [read_last EXCEPT ![t] = last_request_time]
    /\ LET elapsed_time == clock - last_request_time
       IN  IF MustSleep(elapsed_time, delay)
           THEN /\ remaining_time' =
                       [remaining_time EXCEPT ![t] = delay - elapsed_time]
                /\ thread_pc' = [thread_pc EXCEPT ![t] = "to_sleep"]
           ELSE /\ remaining_time' = remaining_time
                /\ thread_pc' = [thread_pc EXCEPT ![t] = "record"]
    /\ UNCHANGED <<prog, runs, pc, user_choice, processed, progress_at_start,
                   previous_end, expVars, impVars, nameVars, pagVars, clock,
                   delay, last_request_time, lock, wake_at, calls, grants,
                   detVars, subVars, itemVars, extVars>>

\* time.sleep(remaining_time) begins.
LimSleep(t) ==
    /\ prog = "limiter"
    /\ thread_pc[t] = "to_sleep"
    /\ wake_at' = [wake_at EXCEPT ![t] = clock + remaining_time[t]]
    /\ thread_pc' = [thread_pc EXCEPT ![t] = "sleep"]
    /\ UNCHANGED <<prog, runs, pc, user_choice, processed, progress_at_start,
                   previous_end, expVars, impVars, nameVars, pagVars, clock,
                   delay, last_request_time, lock, remaining_time, calls,
                   read_last, grants, detVars, subVars, itemVars, extVars>>

\* time.sleep returns: not before the time asked for has passed.
LimWake(t) ==
    /\ prog = "limiter"
    /\ thread_pc[t] = "sleep"
    /\ clock >= wake_at[t]
    /\ thread_pc' = [thread_pc EXCEPT ![t] = "record"]
    /\ UNCHANGED <<prog, runs, pc, user_choice, processed, progress_at_start,
                   previous_end, expVars, impVars, nameVars, pagVars, clock,
                   delay, last_request_time, lock, remaining_time, wake_at,
                   calls, read_last, grants, detVars, subVars, itemVars,
                   extVars>>

\* self.last_request_time = time.perf_counter(): the slot is granted.
LimRecord(t) ==
    /\ prog = "limiter"
    /\ thread_pc[t] = "record"
    /\ last_request_time' = clock
    /\ grants' = Append(grants, [thread |-> t, time |-> clock])
    /\ thread_pc' = [thread_pc EXCEPT ![t] = "release"]
    /\ UNCHANGED <<prog, runs, pc, user_choice, processed, progress_at_start,
                   previous_end, expVars, impVars, nameVars, pagVars, clock,
                   delay, lock, remaining_time, wake_at, calls, read_last,
                   detVars, subVars, itemVars, extVars>>

\* A wait() that returns into the body of a with statement with the lock
\* still held.
LockKeptInBody(t, into_body) == IF into_body THEN t ELSE 0

\* `with self.lock:` of wait() ends before wait() returns, whoever called it.
LockAfterWait(t, into_body) == 0

\* The with block of wait() ends: the lock is released and wait() returns,
\* its locals gone: to a caller of wait(), or to __enter__ and with it into
\* the body of `with self.rate_limiter:`, where the requests are made.
LimRelease(t) ==
    /\ prog = "limiter"
    /\ thread_pc[t] = "release"
    /\ \E into_body \in BOOLEAN :
          /\ lock' = LockAfterWait(t, into_body)
          /\ thread_pc' = [thread_pc EXCEPT
                              ![t] = IF into_body THEN "body" ELSE "idle"]
    /\ remaining_time' = [remaining_time EXCEPT ![t] = 0]
    /\ wake_at' = [wake_at EXCEPT ![t] = 0]
    /\ UNCHANGED <<prog, runs, pc, user_choice, processed, progress_at_start,
                   previous_end, expVars, impVars, nameVars, pagVars, clock,
                   delay, last_request_time, calls, read_last, grants, detVars,
                   subVars, itemVars, extVars>>

\* The body of `with self.rate_limiter:` ends, normally or with an
\* exception: __exit__ touches neither the lock nor the window.
LimExit(t) ==
    /\ prog = "limiter"
    /\ thread_pc[t] = "body"
    /\ thread_pc' = [thread_pc EXCEPT ![t] = "idle"]
    /\ UNCHANGED <<prog, runs, pc, user_choice, processed, progress_at_start,
                   previous_end, expVars, impVars, nameVars, pagVars, clock,
                   delay, last_request_time, lock, remaining_time, wake_at,
                   calls, read_last, grants, detVars, subVars, itemVars,
                   extVars>>

\* KeyboardInterrupt in the main thread while it sleeps in wait(): it is no
\* Exception, so `except Exception` lets it pass; the with statement releases
\* the lock and the interrupt reaches the caller.
LimInterrupt ==
    /\ prog = "limiter"
    /\ thread_pc[MainThread] = "sleep"
    /\ last_request_time' = KeptOnInterrupt(last_request_time, clock)
    /\ lock' = 0
    /\ thread_pc' = [thread_pc EXCEPT ![MainThread] = "interrupted"]
    /\ remaining_time' = [remaining_time EXCEPT ![MainThread] = 0]
    /\ wake_at' = [wake_at EXCEPT ![MainThread] = 0]
    /\ UNCHANGED <<prog, runs, pc, user_choice, processed, progress_at_start,
                   previous_end, expVars, impVars, nameVars, pagVars, clock,
                   delay, calls, read_last, grants, detVars, subVars, itemVars,
                   extVars>>

LimiterNext ==
    \/ LimTick
    \/ LimInterrupt
    \/ \E t \in Threads :
          \/ LimCall(t)
          \/ LimAcquire(t)
          \/ LimRead(t)
          \/ LimSleep(t)
          \/ LimWake(t)
          \/ LimRecord(t)
          \/ LimRelease(t)
          \/ LimExit(t)

SpecLimiter == LimiterInit /\ [][LimiterNext]_vars

\* ------------------------------------- issues_setup, request by request
\* One call of JiraImporter.issues_setup(issue_data): the rate limiter is
\* entered once, then the identity lookups, the creation request, the
\* attachments, the journals and the status transition follow, each request
\* with the answers the destination may give.  outbound is the log of what
\* goes out: a rate-limiter acquisition or a request.
\* config: Importer.allowed_file_types, split at the commas.
allowed_file_types == {"png", "pdf"}

\* What mimetypes.guess_type makes of a path: <<type, subtype>>, or <<>> for
\* None.
Mimes == {<<>>, <<"image", "png">>, <<"application", "x-msdownload">>}

\* The files handle_attachments may meet under attachments/<issue-id>/: one
\* that is not there, and files of a size at or above the configured maximum,
\* of each mime type.
AttachmentFiles ==
    [exists : {FALSE}, size : {0}, mime : {<<>>}]
        \cup [exists : {TRUE}, size : {MaxFileSize, MaxFileSize + 1},
              mime : Mimes]

\* The records issues_setup is given: whether the issue names an author and
\* an assignee, its attachments and its journals (as handle_journals sees
\* them).
IssueData ==
    [author : BOOLEAN, assigned_to : BOOLEAN,
     attachments : SeqsUpTo(AttachmentFiles, MaxAttachments),
     journals : SeqsUpTo(JournalKinds, MaxJournals)]

NoIssueData ==
    [author |-> FALSE, assigned_to |-> FALSE, attachments |-> <<>>,
     journals |-> <<>>]

\* The log entries that are requests.
Requests ==
    {"list_page", "journals_get", "attachments_get", "attachment_download",
     "user_search", "create", "attachment_upload", "comment",
     "transitions_get", "transition_post"}

\* The status codes a failed request is answered with: those
\* handle_http_error tells apart, and one it does not.
Codes == {400, 401, 403, 404, 408, 409, 429, 500}

OkAnswer == [kind |-> "http", status |-> 200]

\* No answer at all: requests raises a ConnectionError or a Timeout.
TransportError == [kind |-> "transport", status |-> 0]

\* A 2xx answer to the creation whose body is no JSON.
NoJsonAnswer == [kind |-> "no_json", status |-> 200]

FailureAnswers == {[kind |-> "http", status |-> s] : s \in Codes}
                      \cup {TransportError}

Answers == {OkAnswer} \cup FailureAnswers

NoFailure == [step |-> "none", kind |-> "none", status |-> 0]

Failed(step, answer) ==
    [step |-> step, kind |-> answer.kind, status |-> answer.status]

\* A warning or an error in the log: the step it is about, its text, and
\* whether the text carries issue_data['issue']['id'].
Entry(step, text, names_item) ==
    [step |-> step, text |-> text, names_item |-> names_item]

\* handle_http_error: the exception raised for a status code.
handle_http_error(status) ==
    CASE status = 400 -> "JiraBadRequestError"
      [] status = 401 -> "JiraAuthenticationError"
      [] status = 403 -> "JiraPermissionError"
      [] status = 404 -> "JiraNotFoundError"
      [] status = 408 -> "JiraRequestTimeoutError"
      [] status = 429 -> "JiraTooManyRequestsError"
      [] status >= 500 /\ status < 600 -> "JiraServerError"
      [] OTHER -> "JiraExportError"

\* What handle_http_error logs before it raises: something only in its else
\* branch, the error_message of the call site.
HttpErrorLog(step, status, names_item) ==
    IF handle_http_error(status) = "JiraExportError"
    THEN <<Entry(step, "http_error", names_item)>>
    ELSE <<>>

\* issues_setup's `except Exception`: "An error occurred during Jira import".
ImportErrorLog(step) == <<Entry(step, "jira_import_error", FALSE)>>

\* What is logged when an attachment upload, a comment or the transition post
\* fails: handle_http_error (for an HTTP error) or the handler's own
\* `except Exception` (for any other error), then issues_setup's
\* `except Exception`, which catches what they raise.
FailureLog(step, answer) ==
    IF answer.kind = "http"
    THEN HttpErrorLog(step, answer.status, step = "transition_post")
             \o ImportErrorLog(step)
    ELSE (IF step \in {"attachment_upload", "comment"}
          THEN <<Entry(step, "request_error", FALSE)>>
          ELSE <<>>) \o ImportErrorLog(step)

\* An is_allowed_file_type that lets a file of unknown type through.
is_allowed_file_type_lenient(mime) ==
    IF mime /= <<>> THEN mime[2] \in allowed_file_types ELSE TRUE

\* is_allowed_file_type: mime_type.split('/')[1] in self.allowed_file_types,
\* False when the type cannot be guessed.
is_allowed_file_type(mime) ==
    IF mime /= <<>> THEN mime[2] \in allowed_file_types ELSE FALSE

\* The checks handle_attachments makes before an upload, in their order.
AttachmentCheck(file) ==
    IF ~file.exists THEN "attachment_not_found"
    ELSE IF file.size > MaxFileSize THEN "attachment_too_large"
    ELSE IF ~is_allowed_file_type(file.mime) THEN "attachment_disallowed"
    ELSE "upload"

\* A __exit__ that returns False whatever was raised.
rate_limiter_exit_propagates(exc_type) == FALSE

\* RateLimiter.__exit__ with an exception: False for KeyboardInterrupt, True
\* (the exception is suppressed) for every other type.
rate_limiter_exit(exc_type) ==
    IF exc_type = "KeyboardInterrupt" THEN FALSE ELSE TRUE

\* Where the run is after an exception has left the body of
\* `with self.rate_limiter:`: issues_setup has returned; or the exception
\* is in import_issues, whose `except KeyboardInterrupt` ends the process and
\* whose `except Exception` skips the line.
AfterBody(exc_type) ==
    IF rate_limiter_exit(exc_type) THEN "returned"
    ELSE IF exc_type = "KeyboardInterrupt" THEN "exited"
    ELSE "raised"

\* The statements of issues_setup inside the with statement.
InBody ==
    {"reporter", "assignee", "create", "attachments", "journals",
     "transition", "transition_post"}

SetupInit ==
    /\ PipelineInit({"issues_setup"})

\* import_issues hands a line to issues_setup; with self.rate_limiter:
\* __enter__ calls wait().  An item that is no dict, or has no subject, raises
\* before anything is sent, and __exit__ swallows it.
SetupEnter ==
    /\ prog = "issues_setup" /\ pc = "idle"
    /\ outbound' = <<"acquire">>
    /\ \/ /\ issue_data' \in IssueData
          /\ failure' = NoFailure
          /\ pc' = "reporter"
       \/ /\ issue_data' = NoIssueData
          /\ failure' = [step |-> "validate", kind |-> "local", status |-> 0]
          /\ pc' = AfterBody("ValueError")
    /\ UNCHANGED <<prog, runs, user_choice, processed, progress_at_start,
                   previous_end, expVars, impVars, nameVars, pagVars, limVars,
                   attachment_no, journal_no, subVars, jira_issue_key, log,
                   unauthorized, considered, extVars>>

\* handle_reporter / handle_assignee: without a name nothing is asked; else
\* get_user sends a user search, and whatever the answer the handler goes on
\* (a failure is caught and logged).
SetupIdentity ==
    /\ prog = "issues_setup" /\ pc \in {"reporter", "assignee"}
    /\ LET named == IF pc = "reporter" THEN issue_data.author
                    ELSE issue_data.assigned_to
       IN  outbound' = IF named THEN Append(outbound, "user_search")
                       ELSE outbound
    /\ pc' = IF pc = "reporter" THEN "assignee" ELSE "create"
    /\ UNCHANGED <<prog, runs, user_choice, processed, progress_at_start,
                   previous_end, expVars, impVars, nameVars, pagVars, limVars,
                   issue_data, attachment_no, journal_no, subVars, itemVars,
                   extVars>>

\* requests.post(f"{jira_url}issue/", ...).  Created: the key is read.  A
\* body that is no JSON: logged, return.  An HTTP error: the handler formats
\* its message with jira_issue_key, which is not bound yet, so an
\* UnboundLocalError leaves the handler before handle_http_error is called,
\* and __exit__ swallows it.  Any other error: logged by `except Exception`,
\* raised, swallowed.
SetupCreate ==
    /\ prog = "issues_setup" /\ pc = "create"
    /\ outbound' = Append(outbound, "create")
    /\ \E answer \in Answers \cup {NoJsonAnswer} :
          IF answer = OkAnswer
          THEN /\ jira_issue_key' = "bound"
               /\ pc' = "attachments"
               /\ UNCHANGED <<failure, log, unauthorized>>
          ELSE /\ failure' = Failed("create", answer)
               /\ log' = CASE answer.kind = "http" -> log
                           [] answer.kind = "no_json" ->
                                Append(log, Entry("create", "no_json", FALSE))
                           [] OTHER -> log \o ImportErrorLog("create")
               /\ unauthorized' = (unauthorized \/ answer.status = 401)
               /\ pc' = CASE answer.kind = "http" ->
                                AfterBody("UnboundLocalError")
                           [] answer.kind = "no_json" -> "returned"
                           [] OTHER -> AfterBody("JiraExportError")
               /\ UNCHANGED jira_issue_key
    /\ UNCHANGED <<prog, runs, user_choice, processed, progress_at_start,
                   previous_end, expVars, impVars, nameVars, pagVars, limVars,
                   issue_data, attachment_no, journal_no, subVars, considered,
                   extVars>>

\* handle_attachments, one attachment per step: a file that is missing, too
\* large or of a disallowed type is logged and skipped (continue); else it is
\* uploaded, and a failed upload raises out of issues_setup.  After the last
\* one the journals follow.
SetupAttachment ==
    /\ prog = "issues_setup" /\ pc = "attachments"
    /\ IF attachment_no = Len(issue_data.attachments)
       THEN /\ pc' = "journals"
            /\ UNCHANGED <<outbound, attachment_no, itemVars>>
       ELSE LET no == attachment_no + 1
                verdict == AttachmentCheck(issue_data.attachments[no])
            IN  /\ attachment_no' = no
                /\ IF verdict = "upload"
                   THEN /\ outbound' = Append(outbound, "attachment_upload")
                        /\ considered' =
                               Append(considered,
                                      [no |-> no, action |-> "uploaded"])
                        /\ \E answer \in Answers :
                              IF answer = OkAnswer
                              THEN UNCHANGED <<pc, failure, log, unauthorized>>
                              ELSE /\ failure' =
                                          Failed("attachment_upload", answer)
                                   /\ log' = log \o
                                          FailureLog("attachment_upload",
                                                     answer)
                                   /\ unauthorized' =
                                          (unauthorized \/ answer.status = 401)
                                   /\ pc' = AfterBody("JiraExportError")
                   ELSE /\ considered' =
                               Append(considered,
                                      [no |-> no, action |-> "skipped"])
                        /\ log' = Append(log, Entry("attachment", verdict,
                                                    TRUE))
                        /\ UNCHANGED <<outbound, pc, failure, unauthorized>>
                /\ UNCHANGED jira_issue_key
    /\ UNCHANGED <<prog, runs, user_choice, processed, progress_at_start,
                   previous_end, expVars, impVars, nameVars, pagVars, limVars,
                   issue_data, journal_no, subVars, extVars>>

\* for journal in issue_data["journals"]: handle_journals(journal, key).  A
\* journal that is no dict is logged, one without notes is passed over; else
\* the comment is posted, and a failed post raises out of issues_setup.  After
\* the last one the status transition follows.
SetupJournal ==
    /\ prog = "issues_setup" /\ pc = "journals"
    /\ IF journal_no = Len(issue_data.journals)
       THEN /\ pc' = "transition"
            /\ UNCHANGED <<outbound, journal_no, itemVars>>
       ELSE LET journal == issue_data.journals[journal_no + 1]
            IN  /\ journal_no' = journal_no + 1
                /\ CASE journal = "notes" ->
                          /\ outbound' = Append(outbound, "comment")
                          /\ \E answer \in Answers :
                                IF answer = OkAnswer
                                THEN UNCHANGED <<pc, failure, log,
                                                 unauthorized>>
                                ELSE /\ failure' = Failed("comment", answer)
                                     /\ log' = log \o
                                            FailureLog("comment", answer)
                                     /\ unauthorized' =
                                            (unauthorized
                                                 \/ answer.status = 401)
                                     /\ pc' = AfterBody("JiraExportError")
                     [] journal = "no_dict" ->
                          /\ log' = Append(log, Entry("journal",
                                                      "invalid_journal",
                                                      FALSE))
                          /\ UNCHANGED <<outbound, pc, failure, unauthorized>>
                     [] OTHER ->
                          UNCHANGED <<outbound, pc, failure, log,
                                      unauthorized>>
                /\ UNCHANGED <<jira_issue_key, considered>>
    /\ UNCHANGED <<prog, runs, user_choice, processed, progress_at_start,
                   previous_end, expVars, impVars, nameVars, pagVars, limVars,
                   issue_data, attachment_no, subVars, extVars>>

\* get_transition_id: the transitions of the issue are fetched.  One leads to
\* the status, or none does (logged).  An HTTP error goes to issues_setup's
\* `except requests.HTTPError`, where handle_http_error raises and __exit__
\* swallows; any other error to its `except Exception`.
SetupTransitionLookup ==
    /\ prog = "issues_setup" /\ pc = "transition"
    /\ outbound' = Append(outbound, "transitions_get")
    /\ \E answer \in Answers, found \in BOOLEAN :
          IF answer = OkAnswer
          THEN /\ pc' = IF found THEN "transition_post" ELSE "returned"
               /\ log' = IF found THEN log
                         ELSE Append(log, Entry("transition", "no_transition",
                                                TRUE))
               /\ UNCHANGED <<failure, unauthorized>>
          ELSE /\ ~found
               /\ failure' = Failed("transitions_get", answer)
               /\ log' = IF answer.kind = "http"
                         THEN log \o HttpErrorLog("transitions_get",
                                                  answer.status, TRUE)
                         ELSE log \o ImportErrorLog("transitions_get")
               /\ unauthorized' = (unauthorized \/ answer.status = 401)
               /\ pc' = AfterBody(IF answer.kind = "http"
                                  THEN handle_http_error(answer.status)
                                  ELSE "JiraExportError")
    /\ UNCHANGED <<prog, runs, user_choice, processed, progress_at_start,
                   previous_end, expVars, impVars, nameVars, pagVars, limVars,
                   issue_data, attachment_no, journal_no, subVars,
                   jira_issue_key, considered, extVars>>

\* requests.post(status_url, ...): done, or failed (logged by
\* handle_http_error's else branch and by `except Exception`); either way
\* issues_setup is over.
SetupTransitionPost ==
    /\ prog = "issues_setup" /\ pc = "transition_post"
    /\ outbound' = Append(outbound, "transition_post")
    /\ \E answer \in Answers :
          IF answer = OkAnswer
          THEN /\ pc' = "returned"
               /\ UNCHANGED <<failure, log, unauthorized>>
          ELSE /\ failure' = Failed("transition_post", answer)
               /\ log' = log \o FailureLog("transition_post", answer)
               /\ unauthorized' = (unauthorized \/ answer.status = 401)
               /\ pc' = AfterBody("JiraExportError")
    /\ UNCHANGED <<prog, runs, user_choice, processed, progress_at_start,
                   previous_end, expVars, impVars, nameVars, pagVars, limVars,
                   issue_data, attachment_no, journal_no, subVars,
                   jira_issue_key, considered, extVars>>

\* Back in import_issues: issues_setup has returned (nothing it raises gets
\* past __exit__), the checkpoint is written and the loop turns to the next
\* line.
SetupNextLine ==
    /\ prog = "issues_setup" /\ pc = "returned"
    /\ pc' = "idle"
    /\ issue_data' = NoIssueData
    /\ outbound' = <<>>
    /\ attachment_no' = 0
    /\ journal_no' = 0
    /\ jira_issue_key' = "unbound"
    /\ failure' = NoFailure
    /\ log' = <<>>
    /\ considered' = <<>>
    /\ UNCHANGED <<prog, runs, user_choice, processed, progress_at_start,
                   previous_end, expVars, impVars, nameVars, pagVars, limVars,
                   subVars, unauthorized, extVars>>

\* import_issues: json.loads(line) raises on a line that is no JSON, before
\* issues_setup is called.
SetupBadLine ==
    /\ prog = "issues_setup" /\ pc = "idle"
    /\ failure' = [step |-> "json", kind |-> "local", status |-> 0]
    /\ pc' = "raised"
    /\ UNCHANGED <<prog, runs, user_choice, processed, progress_at_start,
                   previous_end, expVars, impVars, nameVars, pagVars, limVars,
                   detVars, subVars, jira_issue_key, log, unauthorized,
                   considered, extVars>>

\* import_issues, `except Exception`: "An error occurred during issue
\* import" and "Skipping issue data" are logged; the checkpoint follows.
SetupSkipLine ==
    /\ prog = "issues_setup" /\ pc = "raised"
    /\ log' = log \o <<Entry(failure.step, "import_error", FALSE),
                       Entry(failure.step, "skipping_line", TRUE)>>
    /\ pc' = "returned"
    /\ UNCHANGED <<prog, runs, user_choice, processed, progress_at_start,
                   previous_end, expVars, impVars, nameVars, pagVars, limVars,
                   detVars, subVars, jira_issue_key, failure, unauthorized,
                   considered, extVars>>

\* KeyboardInterrupt inside the with statement: __exit__ lets it pass and
\* import_issues logs it and calls sys.exit(0); the process and the item it
\* had in hand are gone.
SetupInterrupt ==
    /\ prog = "issues_setup" /\ pc \in InBody
    /\ failure' = [step |-> "body", kind |-> "KeyboardInterrupt", status |-> 0]
    /\ pc' = AfterBody("KeyboardInterrupt")
    /\ issue_data' = NoIssueData
    /\ outbound' = <<>>
    /\ attachment_no' = 0
    /\ journal_no' = 0
    /\ jira_issue_key' = "unbound"
    /\ log' = <<Entry("import_issues", "interrupted", FALSE)>>
    /\ considered' = <<>>
    /\ UNCHANGED <<prog, runs, user_choice, processed, progress_at_start,
                   previous_end, expVars, impVars, nameVars, pagVars, limVars,
                   subVars, unauthorized, extVars>>

SetupNext ==
    \/ SetupEnter
    \/ SetupBadLine
    \/ SetupSkipLine
    \/ SetupInterrupt
    \/ SetupIdentity
    \/ SetupCreate
    \/ SetupAttachment
    \/ SetupJournal
    \/ SetupTransitionLookup
    \/ SetupTransitionPost
    \/ SetupNextLine

SpecSetup == SetupInit /\ [][SetupNext]_vars

\* --------------------------------- the export loop, request by request
\* A first run of RedmineExporter.run (no output file yet) with process_issue
\* spelled out: the journals fetch, the attachments fetch, one download per
\* attachment, the record, then rate_limiter.wait() and save_progress.  The
\* source answers each sub-resource request as it pleases; answers records
\* what it answered, per issue.
None == [ok |-> FALSE, entries |-> <<>>]

Some(entries) == [ok |-> TRUE, entries |-> entries]

\* What the source holds for one issue and which of its downloads worked:
\* -1 stands for a request that failed (fetch_data returns None), -2 for an
\* answer that fetch_journals cannot read; raised tells that an exception left
\* fetch_journals or fetch_attachments.
NoAnswer == [journals |-> -1, attachments |-> -1, downloaded |-> <<>>,
             raised |-> FALSE]

\* A process_issue that gives the issue up when its journals request failed.
AfterJournalsGivingUp(n) == IF n < 0 THEN "wait" ELSE "attachments"

\* process_issue after fetch_journals: `except Exception: return` when it
\* raised, else on to the attachments, with None for a failed request.
AfterJournals(n) == IF n = -2 THEN "wait" ELSE "attachments"

ExportInit ==
    /\ PipelineInit({"export_run"})

\* run() up to the loop: no output file, so no prompt; the list is fetched page
\* by page and the loop is entered.
ExRun ==
    /\ prog = "export_run" /\ pc = "idle"
    /\ runs' = runs + 1
    /\ \E failAt \in 0..RequestsOf(source, PageLimit) :
          /\ issues' = fetch_data_with_pagination(source, PageLimit, failAt)
          /\ fetch_failed' = (failAt /= 0)
          /\ outbound' = [k \in 1..(IF failAt = 0
                                    THEN RequestsOf(source, PageLimit)
                                    ELSE failAt) |-> "list_page"]
    /\ fetches' = fetches + 1
    /\ IF Len(issues') > 0
       THEN i' = 1 /\ pc' = "journals"
       ELSE i' = i /\ pc' = "done"
    /\ UNCHANGED <<prog, user_choice, processed, progress_at_start,
                   previous_end, source, output_file, progress_file,
                   current_issue_index, loop_error, output_at_start, impVars,
                   nameVars, pagVars, limVars, issue_data, attachment_no,
                   journal_no, journals, staged, answers, itemVars, extVars>>

\* journals = self.fetch_journals(issue["id"]): None when the request fails,
\* else the journals of the issue; an answer whose "issue" is no object makes
\* fetch_journals raise and process_issue return.
ExFetchJournals ==
    /\ prog = "export_run" /\ pc = "journals"
    /\ processed' = Append(processed, i)
    /\ outbound' = Append(outbound, "journals_get")
    /\ \E n \in -2..MaxEntries :
          /\ journals' = IF n < 0 THEN None ELSE Some(Interval(1, n))
          /\ answers' = Append(answers, [NoAnswer EXCEPT !.journals = n,
                                                         !.raised = (n = -2)])
          /\ pc' = AfterJournals(n)
    /\ UNCHANGED <<prog, runs, user_choice, progress_at_start, previous_end,
                   expVars, impVars, nameVars, pagVars, limVars, issue_data,
                   attachment_no, journal_no, staged, itemVars, extVars>>

\* fetch_attachments(issue["id"]): the issue is asked for with its
\* attachments; a failed request ends it, else the downloads follow.
ExFetchAttachments ==
    /\ prog = "export_run" /\ pc = "attachments"
    /\ outbound' = Append(outbound, "attachments_get")
    /\ \E n \in -1..MaxFiles :
          /\ answers' = [answers EXCEPT ![Len(answers)].attachments = n]
          /\ pc' = IF n > 0 THEN "download" ELSE "export"
    /\ attachment_no' = 0
    /\ UNCHANGED <<prog, runs, user_choice, processed, progress_at_start,
                   previous_end, expVars, impVars, nameVars, pagVars, limVars,
                   issue_data, journal_no, journals, staged, itemVars,
                   extVars>>

\* fetch_attachment_content and save_attachment for the next attachment: a
\* failed download returns None and nothing is saved; else the file is
\* written to attachments/<issue-id>/.  An attachment without "content_url"
\* or "filename" raises KeyError, and process_issue returns.
ExDownload ==
    /\ prog = "export_run" /\ pc = "download"
    /\ attachment_no' = attachment_no + 1
    /\ \/ \E ok \in BOOLEAN :
             /\ outbound' = Append(outbound, "attachment_download")
             /\ answers' = [answers EXCEPT ![Len(answers)].downloaded =
                                Append(@, ok)]
             /\ staged' = IF ok
                          THEN [staged EXCEPT
                                   ![i] = Append(@, attachment_no + 1)]
                          ELSE staged
             /\ pc' = IF attachment_no + 1 = answers[Len(answers)].attachments
                      THEN "export" ELSE "download"
       \/ /\ answers' = [answers EXCEPT ![Len(answers)].raised = TRUE]
          /\ pc' = "wait"
          /\ UNCHANGED <<staged, outbound>>
    /\ UNCHANGED <<prog, runs, user_choice, processed, progress_at_start,
                   previous_end, expVars, impVars, nameVars, pagVars, limVars,
                   issue_data, journal_no, journals, itemVars, extVars>>

\* The rest of process_issue: attachments is the listing of the staging
\* directory when there is one and None otherwise (fetch_attachments returns
\* nothing); the record is prepared and export_data appends it, or fails and
\* logs.
ExExport ==
    /\ prog = "export_run" /\ pc = "export"
    /\ LET attachments == IF staged[i] /= <<>> THEN Some(staged[i]) ELSE None
           record == [issue |-> issues[i], journals |-> journals,
                      attachments |-> attachments]
       IN  \E ok \in BOOLEAN :
              /\ output_file' = export_data(output_file, record, ok)
              /\ loop_error' = (loop_error \/ ~ok)
    /\ pc' = "wait"
    /\ UNCHANGED <<prog, runs, user_choice, processed, progress_at_start,
                   previous_end, source, progress_file, current_issue_index,
                   issues, i, fetches, fetch_failed, output_at_start, impVars,
                   nameVars, pagVars, limVars, detVars, journals, staged,
                   answers, itemVars, extVars>>

\* rate_limiter.wait()
ExWait ==
    /\ prog = "export_run" /\ pc = "wait"
    /\ outbound' = Append(outbound, "acquire")
    /\ pc' = "save"
    /\ UNCHANGED <<prog, runs, user_choice, processed, progress_at_start,
                   previous_end, expVars, impVars, nameVars, pagVars, limVars,
                   issue_data, attachment_no, journal_no, journals, staged,
                   answers, itemVars, extVars>>

\* self.save_progress(i, progress_file), then the next issue or the end of
\* the loop; an IOError leaves the loop through `except Exception`.
ExSave ==
    /\ prog = "export_run" /\ pc = "save"
    /\ \E ok \in BOOLEAN :
          IF ok
          THEN /\ progress_file' = save_progress(i, progress_file)
               /\ pc' = IF i < Len(issues) THEN "journals" ELSE "done"
               /\ i' = IF i < Len(issues) THEN i + 1 ELSE i
               /\ UNCHANGED loop_error
          ELSE /\ loop_error' = TRUE
               /\ pc' = "done"
               /\ UNCHANGED <<progress_file, i, itemVars, extVars>>
    /\ journals' = None
    /\ UNCHANGED <<prog, runs, user_choice, processed, progress_at_start,
                   previous_end, source, output_file, current_issue_index,
                   issues, fetches, fetch_failed, output_at_start, impVars,
                   nameVars, pagVars, limVars, detVars, staged, answers,
                   itemVars, extVars>>

\* Ctrl-C anywhere in the loop: sys.exit(0).
ExInterrupt ==
    /\ prog = "export_run"
    /\ pc \in {"journals", "attachments", "download", "export", "wait", "save"}
    /\ pc' = "exited"
    /\ UNCHANGED <<prog, runs, user_choice, processed, progress_at_start,
                   previous_end, expVars, impVars, nameVars, pagVars, limVars,
                   detVars, journals, staged, answers, itemVars, extVars>>

ExportNext ==
    \/ ExRun
    \/ ExFetchJournals
    \/ ExFetchAttachments
    \/ ExDownload
    \/ ExExport
    \/ ExWait
    \/ ExSave
    \/ ExInterrupt

SpecExport == ExportInit /\ [][ExportNext]_vars

\* ------------------------------------------ the downloads of one issue
\* fetch_attachments for one issue, in _exporter.py and in main.py, over a
\* staging directory attachments/<issue-id>/ that an earlier run may have
\* left (StagingDirs).
DownloadsInit ==
    /\ PipelineInit({"fetch_attachments", "main_fetch_attachments"})

\* What one download leaves behind: the file saved; nothing, when the request
\* failed or the directory could not be made; an empty file, when the write
\* failed after open().  Every error is caught and logged.
Outcomes == {"saved", "failed", "cut"}

After(dir, no, outcome) ==
    CASE outcome = "saved" ->
             [exists |-> TRUE, files |-> [dir.files EXCEPT ![no] = "full"]]
      [] outcome = "cut" ->
             [exists |-> TRUE, files |-> [dir.files EXCEPT ![no] = "empty"]]
      [] OTHER -> dir

\* _exporter.py fetch_attachments: the issue is asked for with its
\* attachments; None when that fails, else every attachment is gone through.
DlCall ==
    /\ prog = "fetch_attachments" /\ pc = "idle"
    /\ attachment_no' = 0
    /\ \E ok \in BOOLEAN :
          pc' = IF ~ok THEN "returned"
                ELSE IF Len(staging.files) > 0 THEN "download" ELSE "done"
    /\ UNCHANGED <<prog, runs, user_choice, processed, progress_at_start,
                   previous_end, expVars, impVars, nameVars, pagVars, limVars,
                   issue_data, journal_no, outbound, subVars, itemVars,
                   payVars, dlVars, jrVars, completion_log, lookVars>>

\* _exporter.py, one attachment: fetch_attachment_content requests it,
\* whatever the staging directory holds, and save_attachment writes what came.
DlAttachment ==
    /\ prog = "fetch_attachments" /\ pc = "download"
    /\ attachment_no' = attachment_no + 1
    /\ downloads' = Append(downloads, attachment_no + 1)
    /\ \E outcome \in Outcomes :
          staging' = After(staging, attachment_no + 1, outcome)
    /\ pc' = IF attachment_no + 1 = Len(staging.files) THEN "done"
             ELSE "download"
    /\ UNCHANGED <<prog, runs, user_choice, processed, progress_at_start,
                   previous_end, expVars, impVars, nameVars, pagVars, limVars,
                   issue_data, journal_no, outbound, subVars, itemVars,
                   payVars, staging_at_start, jrVars, completion_log,
                   lookVars>>

\* main.py fetch_attachments: `if attachments and not
\* os.path.exists(attachment_path)`: the directory is made and the
\* attachments are gone through; else nothing is done.
MainDlCall ==
    /\ prog = "main_fetch_attachments" /\ pc = "idle"
    /\ attachment_no' = 0
    /\ IF Len(staging.files) > 0 /\ ~staging.exists
       THEN /\ staging' = [staging EXCEPT !.exists = TRUE]
            /\ pc' = "download"
       ELSE /\ pc' = "done"
            /\ UNCHANGED staging
    /\ UNCHANGED <<prog, runs, user_choice, processed, progress_at_start,
                   previous_end, expVars, impVars, nameVars, pagVars, limVars,
                   issue_data, journal_no, outbound, subVars, itemVars,
                   payVars, staging_at_start, downloads, jrVars,
                   completion_log, lookVars>>

\* main.py, one attachment: requests.get and shutil.copyfileobj, any error
\* logged as a warning.
MainDlAttachment ==
    /\ prog = "main_fetch_attachments" /\ pc = "download"
    /\ attachment_no' = attachment_no + 1
    /\ downloads' = Append(downloads, attachment_no + 1)
    /\ \E outcome \in Outcomes :
          staging' = After(staging, attachment_no + 1, outcome)
    /\ pc' = IF attachment_no + 1 = Len(staging.files) THEN "done"
             ELSE "download"
    /\ UNCHANGED <<prog, runs, user_choice, processed, progress_at_start,
                   previous_end, expVars, impVars, nameVars, pagVars, limVars,
                   issue_data, journal_no, outbound, subVars, itemVars,
                   payVars, staging_at_start, jrVars, completion_log,
                   lookVars>>

DownloadsNext == DlCall \/ DlAttachment \/ MainDlCall \/ MainDlAttachment

SpecDownloads == DownloadsInit /\ [][DownloadsNext]_vars

\* ------------------------------- the journals of one issue, end to end
\* The journals the source holds for an issue go through fetch_journals into
\* the export record, and from the record through the loop of issues_setup
\* to the destination as comments.  A journal is known by its position in the
\* source's answer.
JournalsInit ==
    /\ PipelineInit({"journals_replay"})

\* A fetch_journals that puts each journal in front of those before it.
PrependParsed(journals_data, journal) == <<journal>> \o journals_data

\* journals_data.append(parsed_journal)
AppendParsed(journals_data, journal) == Append(journals_data, journal)

\* fetch_journals up to its loop: the request fails (None), or the journals of
\* the answer are gone through.
JrFetch ==
    /\ prog = "journals_replay" /\ pc = "idle"
    /\ journal_no' = 0
    /\ \E ok \in BOOLEAN :
          /\ journals' = IF ok THEN Some(<<>>) ELSE None
          /\ pc' = IF ok THEN "parse" ELSE "exported"
    /\ UNCHANGED <<prog, runs, user_choice, processed, progress_at_start,
                   previous_end, expVars, impVars, nameVars, pagVars, limVars,
                   issue_data, attachment_no, outbound, staged, answers,
                   itemVars, extVars>>

\* for index, journal in enumerate(journals, start=1): parse_journals raises
\* on a journal that is no object, which is logged and passed over; else the
\* parsed journal is appended.  After the last one the list is returned and
\* written to the record.
JrParse ==
    /\ prog = "journals_replay" /\ pc = "parse"
    /\ IF journal_no = Len(source_journals)
       THEN /\ pc' = "exported"
            /\ UNCHANGED <<journal_no, journals>>
       ELSE /\ journal_no' = journal_no + 1
            /\ journals' =
                   IF source_journals[journal_no + 1] = "no_dict"
                   THEN journals
                   ELSE Some(AppendParsed(journals.entries, journal_no + 1))
            /\ UNCHANGED pc
    /\ UNCHANGED <<prog, runs, user_choice, processed, progress_at_start,
                   previous_end, expVars, impVars, nameVars, pagVars, limVars,
                   issue_data, attachment_no, outbound, staged, answers,
                   itemVars, extVars>>

\* issues_setup with the record: `if issue_data.get("journals")` lets neither
\* None nor an empty list into the loop.
JrImport ==
    /\ prog = "journals_replay" /\ pc = "exported"
    /\ journal_no' = 0
    /\ pc' = IF journals.ok /\ journals.entries /= <<>> THEN "replay"
             ELSE "done"
    /\ UNCHANGED <<prog, runs, user_choice, processed, progress_at_start,
                   previous_end, expVars, impVars, nameVars, pagVars, limVars,
                   issue_data, attachment_no, outbound, subVars, itemVars,
                   extVars>>

\* for journal in issue_data["journals"]: handle_journals posts a comment
\* for a journal with notes and nothing for one without; a post that fails
\* raises out of the loop.
JrReplay ==
    /\ prog = "journals_replay" /\ pc = "replay"
    /\ journal_no' = journal_no + 1
    /\ LET journal == journals.entries[journal_no + 1]
           more == IF journal_no + 1 < Len(journals.entries) THEN "replay"
                   ELSE "done"
       IN  IF source_journals[journal] = "notes"
           THEN /\ comments_sent' = Append(comments_sent, journal)
                /\ \E ok \in BOOLEAN : pc' = IF ok THEN more ELSE "done"
           ELSE /\ pc' = more
                /\ UNCHANGED comments_sent
    /\ UNCHANGED <<prog, runs, user_choice, processed, progress_at_start,
                   previous_end, expVars, impVars, nameVars, pagVars, limVars,
                   issue_data, attachment_no, outbound, subVars, itemVars,
                   payVars, dlVars, source_journals, completion_log, lookVars>>

JournalsNext == JrFetch \/ JrParse \/ JrImport \/ JrReplay

SpecJournals == JournalsInit /\ [][JournalsNext]_vars

\* ===================================================================
\* The payload of the creation request (JiraImporter.issues_setup)
\* ===================================================================
\* A value: its type, whether its text holds markup, and whether html.escape
\* has been applied to it.
Value(v) ==
    [type |-> IF v = "script" THEN "str" ELSE v,
     markup |-> v = "script",
     escaped |-> FALSE]

\* html.escape: the text with &, <, > and quotes replaced.
html_escape(input_data) == [input_data EXCEPT !.escaped = TRUE]

Mapping(mapping, type, sanitize) ==
    [mapping |-> mapping, type |-> type, sanitize |-> sanitize]

fields_mappings ==
    [field_name \in
        {"subject", "description", "author", "assigned_to", "project",
         "priority", "start_date", "due_date", "created_on", "updated_on",
         "closed_on", "estimated_hours", "labels", "fix_versions",
         "attachments", "journals"} |->
        CASE field_name = "subject" -> Mapping("summary", "str", TRUE)
          [] field_name = "description" -> Mapping("description", "str", TRUE)
          [] field_name = "author" -> Mapping("reporter", "dict", TRUE)
          [] field_name = "assigned_to" -> Mapping("assignee", "dict", TRUE)
          [] field_name = "project" -> Mapping("project", "dict", TRUE)
          [] field_name = "priority" -> Mapping("priority", "dict", TRUE)
          [] field_name = "start_date" ->
                Mapping("customfield_10015", "str", FALSE)
          [] field_name = "due_date" -> Mapping("duedate", "str", FALSE)
          [] field_name = "created_on" ->
                Mapping("customfield_10075", "str", FALSE)
          [] field_name = "updated_on" ->
                Mapping("customfield_10076", "str", FALSE)
          [] field_name = "closed_on" ->
                Mapping("customfield_10077", "str", FALSE)
          [] field_name = "estimated_hours" ->
                Mapping("customfield_10078", "int", FALSE)
          [] field_name = "labels" -> Mapping("labels", "list", TRUE)
          [] field_name = "fix_versions" -> Mapping("fixVersions", "list", TRUE)
          [] field_name = "attachments" -> Mapping("attachments", "list", TRUE)
          [] field_name = "journals" -> Mapping("journals", "list", TRUE)]

validate_input(input_data, input_types) == input_data.type = input_types

sanitize_input(input_data) ==
    IF input_data.type = "str"
    THEN html_escape(input_data)
    ELSE input_data

\* The payload after set_field_value: unchanged when the field has no mapping
\* or the value fails the type check.
set_field_value(payload, field_name, value, field_mapping_dict) ==
    IF field_name \in DOMAIN field_mapping_dict
    THEN LET field_id == field_mapping_dict[field_name].mapping
         IN  IF ~validate_input(value, field_mapping_dict[field_name].type)
             THEN payload
             ELSE (field_id :>
                      IF field_mapping_dict[field_name].sanitize
                      THEN sanitize_input(value)
                      ELSE value) @@ payload
    ELSE payload

\* handle_start_date .. handle_closed_on and handle_estimated_hours: a field
\* that is absent or None is skipped, any other goes to set_field_value.
handle_field(issue, payload, field_name) ==
    IF issue[field_name] /= "none"
    THEN set_field_value(payload, field_name, Value(issue[field_name]),
                         fields_mappings)
    ELSE payload

handle_dates(issue, payload) ==
    LET a == handle_field(issue, payload, "start_date")
        b == handle_field(issue, a, "due_date")
        c == handle_field(issue, b, "created_on")
        d == handle_field(issue, c, "updated_on")
    IN  handle_field(issue, d, "closed_on")

\* JiraImporter.priority_mappings
priority_mappings ==
    [name \in {"(1) Immediate", "(2) Urgent", "(3) High", "(4) Normal",
               "(5) Low"} |->
        CASE name = "(1) Immediate" -> "Highest"
          [] name = "(2) Urgent" -> "High"
          [] name = "(3) High" -> "Medium"
          [] name = "(4) Normal" -> "Low"
          [] name = "(5) Low" -> "Lowest"]

\* issue_data["issue"]["priority"]["name"]: none, a name of the table, and a
\* name that is not in it.
PriorityNames == {"none", "(4) Normal", "Custom"}

\* {"name": new_priority_name}
PriorityValue(name) ==
    [type |-> "dict", markup |-> FALSE, escaped |-> FALSE, name |-> name]

\* The payload after handle_priority: only a name of the table is written,
\* as its mapped name.
handle_priority(payload, name) ==
    IF name /= "none"
    THEN IF name \in DOMAIN priority_mappings
         THEN set_field_value(payload, "priority",
                              PriorityValue(priority_mappings[name]),
                              fields_mappings)
         ELSE payload
    ELSE payload

PayloadInit ==
    /\ PipelineInit({"payload"})

\* Lines 462-473: the payload starts with the project key, the subject and
\* the description of the item as they are, and the tracker's name.
PayBase ==
    /\ prog = "payload" /\ pc = "idle"
    /\ jira_issue' =
          [field_id \in {"project", "summary", "description", "issuetype"} |->
              CASE field_id = "summary" -> Value(fields["subject"])
                [] field_id = "description" -> Value(fields["description"])
                [] OTHER -> Value("dict")]
    /\ pc' = "people"
    /\ UNCHANGED <<prog, runs, user_choice, processed, progress_at_start,
                   previous_end, expVars, impVars, nameVars, pagVars, limVars,
                   detVars, subVars, itemVars, fields, old_priority_name,
                   dlVars, jrVars, completion_log, lookVars>>

\* handle_reporter and handle_assignee write their fields themselves: the
\* reporter found or the default one, the assignee found or None, or nothing.
PayPeople ==
    /\ prog = "payload" /\ pc = "people"
    /\ \E reporter \in {"absent", "dict"}, assignee \in {"absent", "none", "dict"} :
          jira_issue' =
             LET a == IF reporter = "absent" THEN jira_issue
                      ELSE ("reporter" :> Value(reporter)) @@ jira_issue
             IN  IF assignee = "absent" THEN a
                 ELSE ("assignee" :> Value(assignee)) @@ a
    /\ pc' = "dates"
    /\ UNCHANGED <<prog, runs, user_choice, processed, progress_at_start,
                   previous_end, expVars, impVars, nameVars, pagVars, limVars,
                   detVars, subVars, itemVars, fields, old_priority_name,
                   dlVars, jrVars, completion_log, lookVars>>

PayDates ==
    /\ prog = "payload" /\ pc = "dates"
    /\ jira_issue' = handle_dates(fields, jira_issue)
    /\ pc' = "priority"
    /\ UNCHANGED <<prog, runs, user_choice, processed, progress_at_start,
                   previous_end, expVars, impVars, nameVars, pagVars, limVars,
                   detVars, subVars, itemVars, fields, old_priority_name,
                   dlVars, jrVars, completion_log, lookVars>>

\* handle_priority: the priority of the item has no name (or there is no
\* priority), or its name is looked up in priority_mappings.  handle_category
\* sets a list it builds, empty or not.
PayPriorityCategory ==
    /\ prog = "payload" /\ pc = "priority"
    /\ \E name \in PriorityNames :
          /\ old_priority_name' = name
          /\ jira_issue' =
                set_field_value(handle_priority(jira_issue, name), "labels",
                                Value("list"), fields_mappings)
    /\ pc' = "estimated_hours"
    /\ UNCHANGED <<prog, runs, user_choice, processed, progress_at_start,
                   previous_end, expVars, impVars, nameVars, pagVars, limVars,
                   detVars, subVars, itemVars, fields, dlVars, jrVars,
                   completion_log, lookVars>>

PayEstimatedHours ==
    /\ prog = "payload" /\ pc = "estimated_hours"
    /\ jira_issue' = handle_field(fields, jira_issue, "estimated_hours")
    /\ pc' = "post"
    /\ UNCHANGED <<prog, runs, user_choice, processed, progress_at_start,
                   previous_end, expVars, impVars, nameVars, pagVars, limVars,
                   detVars, subVars, itemVars, fields, old_priority_name,
                   dlVars, jrVars, completion_log, lookVars>>

\* requests.post(..., json=jira_issue)
PayPost ==
    /\ prog = "payload" /\ pc = "post"
    /\ pc' = "posted"
    /\ UNCHANGED <<prog, runs, user_choice, processed, progress_at_start,
                   previous_end, expVars, impVars, nameVars, pagVars, limVars,
                   detVars, subVars, itemVars, payVars, dlVars, jrVars,
                   completion_log, lookVars>>

PayloadNext ==
    \/ PayBase
    \/ PayPeople
    \/ PayDates
    \/ PayPriorityCategory
    \/ PayEstimatedHours
    \/ PayPost

SpecPayload == PayloadInit /\ [][PayloadNext]_vars

\* ===================================================================
\* Status: the exporter's filter and the importer's transition
\* ===================================================================
\* RedmineExporter.status_map: the ids 1..12, each to its decimal string.
status_map == [status_key \in 1..12 |-> str(status_key)]

\* params after fetch_issues has looked at status (an int, or None: <<>>):
\* params["status_id"] = self.status_map.get(status, str(status)).
status_params(status_arg) ==
    IF status_arg /= <<>>
    THEN "status_id" :>
            (IF status_arg[1] \in DOMAIN status_map
             THEN status_map[status_arg[1]]
             ELSE str(status_arg[1]))
    ELSE <<>>

\* JiraImporter.status_mappings
status_mappings ==
    [name \in {"New", "In Progress", "Ready For Testing", "Feedback",
               "Closed", "Rejected", "Approved", "Re-Opened", "Won't Fix",
               "On Hold", "In Review"} |->
        CASE name = "New" -> "1"
          [] name = "In Progress" -> "2"
          [] name = "Ready For Testing" -> "3"
          [] name = "Feedback" -> "4"
          [] name = "Closed" -> "5"
          [] name = "Rejected" -> "6"
          [] name = "Approved" -> "7"
          [] name = "Re-Opened" -> "8"
          [] name = "Won't Fix" -> "9"
          [] name = "On Hold" -> "10"
          [] name = "In Review" -> "11"]

\* issue_data["issue"]["status"]["name"]: two names of the table and one that
\* is not in it.
SourceStatusNames == {"New", "Closed", "Resolved"}

\* transition['to']['name'] of the destination's transitions.
TargetNames == {"Closed", "closed", "Resolved", "Done"}

TransitionIds == {"11", "21"}

Transitions == [id : TransitionIds, to : TargetNames]

TransitionLists == SeqsUpTo(Transitions, MaxTransitions)

\* str.lower()
lower(name) ==
    CASE name = "New" -> "new"
      [] name = "Closed" -> "closed"
      [] name = "Resolved" -> "resolved"
      [] name = "Done" -> "done"
      [] OTHER -> name

\* A target taken from status_mappings, which has no entry for some names.
transition_target_mapped(name) ==
    IF name \in DOMAIN status_mappings THEN status_mappings[name]
    ELSE "KeyError"

\* The status name issues_setup gives to get_transition_id: the source name.
transition_target(name) == name

NoTransition == "None"

\* A get_transition_id that compares the names as they are written.
get_transition_id_exact(list, wanted) ==
    LET matching == {k \in 1..Len(list) : list[k].to = wanted}
    IN  IF matching = {} THEN NoTransition
        ELSE list[CHOOSE k \in matching : \A j \in matching : k <= j].id

\* get_transition_id after the request: the id of the first transition whose
\* target name is the wanted one in lower case, or None.
get_transition_id(list, wanted) ==
    LET matching == {k \in 1..Len(list) : lower(list[k].to) = lower(wanted)}
    IN  IF matching = {} THEN NoTransition
        ELSE list[CHOOSE k \in matching : \A j \in matching : k <= j].id

TransitionInit ==
    /\ PipelineInit({"status_filter", "transition"})

\* fetch_issues: status has passed validate_input (int or None).
FilterParams ==
    /\ prog = "status_filter" /\ pc = "idle"
    /\ \E status_arg \in Statuses :
          /\ args_status' = status_arg
          /\ params' = status_params(status_arg)
    /\ pc' = "fetch"
    /\ UNCHANGED <<prog, runs, user_choice, processed, progress_at_start,
                   previous_end, expVars, impVars, nameVars, pagVars, limVars,
                   detVars, subVars, itemVars, issue_status, target_status,
                   transitions, transition_id, user_search, importer_args,
                   payVars, dlVars, jrVars, completion_log>>

\* import_issues takes the next line and issues_setup has created its issue
\* and is through with attachments and journals; the status name is read.
TrEnter ==
    /\ prog = "transition" /\ pc = "idle"
    /\ line_num < MaxIssues
    /\ line_num' = line_num + 1
    /\ \E name \in SourceStatusNames : issue_status' = name
    /\ target_status' = ""
    /\ transitions' = <<>>
    /\ transition_id' = NoTransition
    /\ outbound' = <<>>
    /\ failure' = NoFailure
    /\ log' = <<>>
    /\ pc' = "transition"
    /\ UNCHANGED <<prog, runs, user_choice, processed, progress_at_start,
                   previous_end, expVars, fileVars, lines, checkpoint_file,
                   checkpoint_source, start_from_checkpoint, checkpoint_id,
                   created, create_requests, created_at_start, nameVars,
                   pagVars, limVars, issue_data, attachment_no, journal_no,
                   subVars, jira_issue_key, unauthorized, considered,
                   args_status, params, user_search, importer_args, payVars,
                   dlVars, jrVars, completion_log>>

\* get_transition_id(jira_issue_key, issue_status): the request fails, as in
\* issues_setup, or it is answered with the transitions; with no id the
\* error is logged and nothing is posted.
TrLookup ==
    /\ prog = "transition" /\ pc = "transition"
    /\ target_status' = transition_target(issue_status)
    /\ outbound' = Append(outbound, "transitions_get")
    /\ \E answer \in Answers :
          IF answer = OkAnswer
          THEN \E list \in TransitionLists :
                  LET id == get_transition_id(list, target_status')
                  IN  /\ transitions' = list
                      /\ transition_id' = id
                      /\ pc' = IF id = NoTransition THEN "returned"
                               ELSE "transition_post"
                      /\ log' = IF id = NoTransition
                                THEN Append(log, Entry("transition",
                                                       "no_transition", TRUE))
                                ELSE log
                      /\ UNCHANGED <<failure, unauthorized>>
          ELSE /\ failure' = Failed("transitions_get", answer)
               /\ log' = IF answer.kind = "http"
                         THEN log \o HttpErrorLog("transitions_get",
                                                  answer.status, TRUE)
                         ELSE log \o ImportErrorLog("transitions_get")
               /\ unauthorized' = (unauthorized \/ answer.status = 401)
               /\ pc' = "returned"
               /\ UNCHANGED <<transitions, transition_id>>
    /\ UNCHANGED <<prog, runs, user_choice, processed, progress_at_start,
                   previous_end, expVars, impVars, nameVars, pagVars, limVars,
                   issue_data, attachment_no, journal_no, subVars,
                   jira_issue_key, considered, args_status, params,
                   issue_status, user_search, importer_args, payVars, dlVars,
                   jrVars, completion_log>>

\* requests.post(status_url, json={"transition": {"id": transition_id}})
TrPost ==
    /\ prog = "transition" /\ pc = "transition_post"
    /\ outbound' = Append(outbound, "transition_post")
    /\ \E answer \in Answers :
          IF answer = OkAnswer
          THEN UNCHANGED <<failure, log, unauthorized>>
          ELSE /\ failure' = Failed("transition_post", answer)
               /\ log' = log \o FailureLog("transition_post", answer)
               /\ unauthorized' = (unauthorized \/ answer.status = 401)
    /\ pc' = "returned"
    /\ UNCHANGED <<prog, runs, user_choice, processed, progress_at_start,
                   previous_end, expVars, impVars, nameVars, pagVars, limVars,
                   issue_data, attachment_no, journal_no, subVars,
                   jira_issue_key, considered, lookVars, payVars, dlVars,
                   jrVars, completion_log>>

\* Back in import_issues: checkpoint_id = line_num is written.
TrCheckpoint ==
    /\ prog = "transition" /\ pc = "returned"
    /\ checkpoint_id' = line_num
    /\ checkpoint_file' = save_progress(line_num, checkpoint_file)
    /\ pc' = "idle"
    /\ UNCHANGED <<prog, runs, user_choice, processed, progress_at_start,
                   previous_end, expVars, fileVars, lines, checkpoint_source,
                   start_from_checkpoint, line_num, created, create_requests,
                   created_at_start, nameVars, pagVars, limVars, detVars,
                   subVars, itemVars, lookVars, payVars, dlVars, jrVars,
                   completion_log>>

TransitionNext ==
    \/ FilterParams
    \/ TrEnter
    \/ TrLookup
    \/ TrPost
    \/ TrCheckpoint

SpecTransition == TransitionInit /\ [][TransitionNext]_vars

\* ===================================================================
\* Reporter and assignee (handle_reporter, handle_assignee)
\* ===================================================================
\* What becomes of the search for one person of the item: the item names
\* nobody (no search); get_user raises (the name is no str, the request or
\* the decoding of its answer fails); the answer has a status other than 200
\* (logged, None); the answer is an empty list (None); the first user of the
\* answer has no accountId, or has one.
SearchOutcomes ==
    {"unnamed", "raised", "status_error", "no_match", "no_account_id",
     "found"}

\* get_user returned None.
NoUser == [found |-> FALSE, accountId |-> ""]

\* get_user(username) where it returns: user_data[0], or None.
get_user(outcome) ==
    CASE outcome = "found" -> [found |-> TRUE, accountId |-> "account"]
      [] outcome = "no_account_id" -> [found |-> TRUE, accountId |-> ""]
      [] OTHER -> NoUser

\* What the handlers write: {"name": ..., "id": ...}, {"id": ...} or None.
PersonValue(type, id, name) ==
    [type |-> type, markup |-> FALSE, escaped |-> FALSE, id |-> id,
     name |-> name]

DefaultReporter ==
    PersonValue("dict", "63776502489de2f7f46267eb", "Anonymous")

Unassigned == PersonValue("none", "", "")

\* The payload after handle_reporter / handle_assignee: `fallback` is what is
\* written when get_user returns None.
handle_person(payload, field_id, outcome, fallback) ==
    IF outcome \in {"unnamed", "raised"} THEN payload
    ELSE LET user == get_user(outcome)
         IN  IF ~user.found THEN (field_id :> fallback) @@ payload
             ELSE IF user.accountId = "" THEN payload
             ELSE (field_id :> PersonValue("dict", user.accountId, ""))
                     @@ payload

handle_reporter(payload, outcome) ==
    handle_person(payload, "reporter", outcome, DefaultReporter)

handle_assignee(payload, outcome) ==
    handle_person(payload, "assignee", outcome, Unassigned)

IdentityInit ==
    /\ PipelineInit({"identity"})

\* issues_setup up to the handlers: the payload with its four first fields.
IdBase ==
    /\ prog = "identity" /\ pc = "idle"
    /\ jira_issue' =
          [field_id \in {"project", "summary", "description", "issuetype"} |->
              IF field_id \in {"summary", "description"} THEN Value("str")
              ELSE Value("dict")]
    /\ outbound' = <<"acquire">>
    /\ pc' = "reporter"
    /\ UNCHANGED <<prog, runs, user_choice, processed, progress_at_start,
                   previous_end, expVars, impVars, nameVars, pagVars, limVars,
                   issue_data, attachment_no, journal_no, subVars, itemVars,
                   fields, old_priority_name, dlVars, jrVars, completion_log,
                   lookVars>>

IdReporter ==
    /\ prog = "identity" /\ pc = "reporter"
    /\ \E outcome \in SearchOutcomes :
          /\ user_search' = [user_search EXCEPT !.reporter = outcome]
          /\ jira_issue' = handle_reporter(jira_issue, outcome)
          /\ outbound' = IF outcome = "unnamed" THEN outbound
                         ELSE Append(outbound, "user_search")
    /\ pc' = "assignee"
    /\ UNCHANGED <<prog, runs, user_choice, processed, progress_at_start,
                   previous_end, expVars, impVars, nameVars, pagVars, limVars,
                   issue_data, attachment_no, journal_no, subVars, itemVars,
                   fields, old_priority_name, dlVars, jrVars, completion_log,
                   args_status, params, issue_status, target_status,
                   transitions, transition_id, importer_args>>

IdAssignee ==
    /\ prog = "identity" /\ pc = "assignee"
    /\ \E outcome \in SearchOutcomes :
          /\ user_search' = [user_search EXCEPT !.assignee = outcome]
          /\ jira_issue' = handle_assignee(jira_issue, outcome)
          /\ outbound' = IF outcome = "unnamed" THEN outbound
                         ELSE Append(outbound, "user_search")
    /\ pc' = "create"
    /\ UNCHANGED <<prog, runs, user_choice, processed, progress_at_start,
                   previous_end, expVars, impVars, nameVars, pagVars, limVars,
                   issue_data, attachment_no, journal_no, subVars, itemVars,
                   fields, old_priority_name, dlVars, jrVars, completion_log,
                   args_status, params, issue_status, target_status,
                   transitions, transition_id, importer_args>>

\* The handlers of dates, priority, category and estimated hours send
\* nothing; then requests.post(f"{self.jira_url}issue/", json=jira_issue).
IdCreate ==
    /\ prog = "identity" /\ pc = "create"
    /\ outbound' = Append(outbound, "issue_create")
    /\ \E answer \in Answers \cup {NoJsonAnswer} :
          /\ failure' = IF answer = OkAnswer THEN NoFailure
                        ELSE Failed("issue_create", answer)
          /\ jira_issue_key' = IF answer = OkAnswer THEN "bound"
                               ELSE "unbound"
          /\ unauthorized' = (unauthorized \/ answer.status = 401)
    /\ pc' = "created"
    /\ UNCHANGED <<prog, runs, user_choice, processed, progress_at_start,
                   previous_end, expVars, impVars, nameVars, pagVars, limVars,
                   issue_data, attachment_no, journal_no, subVars, log,
                   considered, payVars, dlVars, jrVars, completion_log,
                   lookVars>>

IdentityNext ==
    \/ IdBase
    \/ IdReporter
    \/ IdAssignee
    \/ IdCreate

SpecIdentity == IdentityInit /\ [][IdentityNext]_vars

\* ===================================================================
\* JiraImporter.run and the file it is given
\* ===================================================================
\* args.project is given or not, args.activate_extraction is set or not; the
\* other options (attachments, status, priority, debug) only add log lines.
ImporterArgs == [project : BOOLEAN, activate_extraction : BOOLEAN]

RunInit ==
    /\ PipelineInit({"importer_run"})

\* open(args.filename, "w") and a write for each of the extracted issues, of
\* which there are none.
write_extracted(extracted_issues) == extracted_issues

\* run() up to the call of import_issues: with a project and without
\* activate_extraction the empty list of extracted issues is written to
\* args.filename.
RunImporter ==
    /\ prog = "importer_run" /\ pc = "idle"
    /\ \E a \in ImporterArgs, f \in Filenames :
          /\ importer_args' = a
          /\ filename' = f
          /\ files' = IF a.project /\ ~a.activate_extraction
                      THEN [files EXCEPT ![f] = write_extracted(<<>>)]
                      ELSE files
          /\ pc' = IF a.activate_extraction THEN "import" ELSE "done"
    /\ UNCHANGED <<prog, runs, user_choice, processed, progress_at_start,
                   previous_end, expVars, previous_filename, lines,
                   checkpoint_file, checkpoint_source, start_from_checkpoint,
                   checkpoint_id, line_num, created, create_requests,
                   created_at_start, nameVars, pagVars, limVars, detVars,
                   subVars, itemVars, payVars, dlVars, jrVars, completion_log,
                   args_status, params, issue_status, target_status,
                   transitions, transition_id, user_search>>

\* import_issues(args.filename): the file is opened for reading and its
\* lines are gone through.
RunImportIssues ==
    /\ prog = "importer_run" /\ pc = "import"
    /\ lines' = files[filename]
    /\ line_num' = Len(files[filename])
    /\ pc' = "done"
    /\ UNCHANGED <<prog, runs, user_choice, processed, progress_at_start,
                   previous_end, expVars, fileVars, checkpoint_file,
                   checkpoint_source, start_from_checkpoint, checkpoint_id,
                   created, create_requests, created_at_start, nameVars,
                   pagVars, limVars, detVars, subVars, itemVars, payVars,
                   dlVars, jrVars, completion_log, lookVars>>

RunNext == RunImporter \/ RunImportIssues

SpecRun == RunInit /\ [][RunNext]_vars

\* ===================================================================
\* Properties of the resumable pipeline
\* ===================================================================
\* The integer a checkpoint file holds, 0 when there is no file.
CheckpointValue(file) == IF file.exists THEN int(file.text) ELSE 0

\* The checkpoint file of the program that is running.
Checkpoint == IF prog = "importer" THEN checkpoint_file ELSE progress_file

\* The number of items of the list the run works on.
ListLength == IF prog = "importer" THEN Len(lines) ELSE Len(issues)

\* What this run appended to the output file.
Appended ==
    SubSeq(output_file.text, Len(output_at_start.text) + 1, Len(output_file.text))

\* The destination issues this run created, by line.
CreatedThisRun == SubSeq(created, created_at_start + 1, Len(created))

StrictlyIncreasing(s) == \A j, k \in 1..Len(s) : j < k => s[j] < s[k]

\* C1: a run that resumes from checkpoint c over a list of N items processes
\* exactly the items c+1..N, in list order, leaves what the output file held in
\* place and appends only records of the items it processed, in order.
ResumeProcessesOnlyWhatIsLeft ==
    user_choice = "2" =>
        LET c == CheckpointValue(progress_at_start)
        IN  /\ \A j \in 1..Len(processed) : processed[j] = c + j
            /\ pc \notin {"gate", "fetch"} => Len(processed) <= ListLength
            /\ (pc = "done" /\ ~loop_error) =>
                   processed = Interval(c + 1, ListLength)
            /\ prog \in {"exporter", "main"} =>
                   /\ IsPrefix(output_at_start.text, output_file.text)
                   /\ Range(Appended) \subseteq Range(processed)
                   /\ StrictlyIncreasing(Appended)
                   /\ \A k \in Range(Appended) : k > c

ResumeProcessesOnlyWhatIsLeftWitness ==
    /\ prog = "exporter" /\ user_choice = "2" /\ pc = "done"
    /\ CheckpointValue(progress_at_start) = 1
    /\ processed = <<2, 3>>
    /\ output_at_start.text = <<1>>
    /\ output_file.text = <<1, 2, 3>>

\* C2 (as claimed): whatever the point at which earlier runs stopped, no source
\* issue ever has more than one record in the output file.
NoIssueExportedTwice ==
    prog = "exporter" => \A k \in Range(source) : Count(k, output_file.text) <= 1

\* C3 (as claimed): the persisted checkpoint never stands at or past an item
\* whose record is not in the output file.
CheckpointNeverPassesUnwrittenItem ==
    prog \in {"exporter", "main"} =>
        \A k \in 1..CheckpointValue(progress_file) :
            k \in Range(source) => k \in Range(output_file.text)

\* C4: when an item is started after another item of the same run has
\* finished, whether that one succeeded or failed, the checkpoint file holds
\* the index of the finished item.
CheckpointHeldBeforeNextItem ==
    /\ (prog = "exporter" /\ pc = "process" /\ processed /= <<>>) =>
           /\ progress_file.exists
           /\ CheckpointValue(progress_file) = processed[Len(processed)]
           /\ i = processed[Len(processed)] + 1
    /\ (prog = "importer" /\ pc = "item" /\ Len(processed) >= 2) =>
           /\ checkpoint_file.exists
           /\ CheckpointValue(checkpoint_file) = processed[Len(processed) - 1]
           /\ line_num = processed[Len(processed) - 1] + 1

\* Item 1 failed to be written (the output is still empty) and item 2 is about
\* to start with the checkpoint at 1.
CheckpointHeldBeforeNextItemWitness ==
    /\ prog = "exporter" /\ pc = "process" /\ runs = 1
    /\ processed = <<1>> /\ i = 2
    /\ output_file.text = <<>>
    /\ progress_file.exists

\* C5: a run that follows a completed import of the same file and resumes (or
\* is offered no prompt because there was nothing to import) sends no
\* issue-creation request.
ImportResumeIdempotent ==
    (/\ prog = "importer" /\ previous_end = "done"
     /\ filename = previous_filename
     /\ user_choice \in {"2", "none"})
        => create_requests = <<>>

ImportResumeIdempotentWitness ==
    /\ prog = "importer" /\ previous_end = "done" /\ user_choice = "2"
    /\ pc = "done"
    /\ Len(lines) = MaxIssues
    /\ CheckpointValue(progress_at_start) = MaxIssues
    /\ Len(created) >= 2

\* C6 (as claimed): when an import run has been stopped by an interrupt, no
\* destination issue the run created belongs to a line beyond the persisted
\* checkpoint.
InterruptIsClean ==
    (prog = "importer" /\ pc = "exited") =>
        \A k \in Range(CreatedThisRun) : k <= CheckpointValue(checkpoint_file)

\* C11 (as claimed): when the operator resumes, a checkpoint that was written
\* while another exported file was imported makes the run skip no line of the
\* file it reads.
ImportCheckpointScoped ==
    (/\ prog = "importer" /\ user_choice = "2"
     /\ processed = <<>>
     /\ checkpoint_source /= filename)
        => line_num = 0

\* C14 (as claimed): once a request of the list fetch has failed, the run holds
\* no list, processes no item, appends no record and saves no progress.
ListFetchFailureAborts ==
    (prog \in {"exporter", "main"} /\ fetch_failed) =>
        /\ issues = <<>>
        /\ processed = <<>>
        /\ Appended = <<>>
        /\ progress_file \in {progress_at_start, NoFile}

\* C8: after the operator chose 3 or typed anything unrecognised, the run has
\* returned, the output and checkpoint files are what they were, no list fetch
\* was issued, no item was processed and no request was sent.
AbortLeavesStateUntouched ==
    user_choice \in {"3", "other"} =>
        /\ pc = "returned"
        /\ output_file = output_at_start
        /\ Checkpoint = progress_at_start
        /\ fetches = 0
        /\ processed = <<>>
        /\ create_requests = <<>>
        /\ Len(created) = created_at_start

AbortLeavesStateUntouchedWitness ==
    /\ prog = "exporter" /\ user_choice = "other" /\ pc = "returned"
    /\ output_file.exists /\ Len(output_file.text) = 2
    /\ progress_file.exists /\ CheckpointValue(progress_file) = 2

\* C9 (as claimed): whenever the operator chose reset, both files were deleted
\* and the run goes on from index 0 over the whole list.
ResetRestartsFromZero ==
    (prog \in {"exporter", "main"} /\ user_choice = "1") =>
        /\ pc /= "crashed"
        /\ current_issue_index = 0
        /\ \A j \in 1..Len(processed) : processed[j] = j

\* C7: whatever was saved and removed before, load_progress returns the index
\* last saved when the file is there, and 0 when it is not.
CheckpointRoundTrip ==
    (prog = "checkpoint" /\ pc = "loaded") =>
        current_issue_index = IF progress_file.exists THEN i ELSE 0

\* A three-digit index saved over a shorter one and read back.
CheckpointRoundTripWitness ==
    /\ prog = "checkpoint" /\ pc = "loaded"
    /\ progress_file.text = <<"1", "0", "7">>
    /\ current_issue_index = 107

\* C10 (as claimed): two export runs whose (project, status filter) differ
\* compute different output file names and different progress file names.
FileNamesDoNotCollide ==
    (prog = "names" /\ pc = "named" /\ run_args[1] /= run_args[2]) =>
        /\ file_names[1].run.output_file /= file_names[2].run.output_file
        /\ file_names[1].run.progress_file /= file_names[2].run.progress_file

\* ===================================================================
\* Properties of the list fetch
\* ===================================================================
AllServedOk == \A k \in 1..Len(served) : served[k].ok

\* C12: as long as the source serves pages, the offset of every request is the
\* number of items received before it (0 for the first), the list gathered is
\* the concatenation of the pages received, an empty page is the last response
\* asked for, and the loop has returned exactly when an empty page came.
PaginationConcatenatesPages ==
    (prog = "pagination" /\ AllServedOk) =>
        /\ \A k \in 1..Len(requested) :
               requested[k] = Len(Concat(SubSeq(served, 1, k - 1)))
        /\ Len(requested) = Len(served)
        /\ data = Concat(served)
        /\ \A k \in 1..(Len(served) - 1) : served[k].issues /= <<>>
        /\ (pc = "returned") <=>
               (served /= <<>> /\ served[Len(served)].issues = <<>>)

\* Two pages of different sizes, then the empty page, every response carrying
\* a total_count that is wrong.
PaginationConcatenatesPagesWitness ==
    /\ prog = "pagination" /\ pc = "returned"
    /\ Len(served) = 3
    /\ data = <<1, 2, 3>>
    /\ requested = <<0, 2, 3>>
    /\ served[1].total_count = 0
    /\ served[3].total_count = MaxTotal

\* C13 (as claimed): the list fetch of src/main.py ends on an empty page,
\* whatever total_count the source reports: once a request has been answered
\* with no issues, the fetch has returned.
MainFetchStopsAtEmptyPage ==
    (/\ prog = "fetch_issues"
     /\ served /= <<>>
     /\ served[Len(served)].ok
     /\ served[Len(served)].issues = <<>>) => pc = "returned"

\* The same as a property of whole runs: the list fetch of src/main.py comes
\* to an end.
MainFetchTerminates ==
    (prog = "fetch_issues") => <>(pc \in {"returned", "exited"})

\* ===================================================================
\* Properties of the rate limiter
\* ===================================================================
\* C16: as long as one thread alone has been granted slots, each grant is at
\* least delay after the grant before it (the first one at least delay after the
\* limiter was built), and N grants span at least (N-1) * delay.
GrantsAreSpaced ==
    (prog = "limiter" /\ \A k \in 1..Len(grants) : grants[k].thread = MainThread)
        =>
        /\ \A k \in 1..Len(grants) :
               grants[k].time >= (IF k = 1 THEN 0 ELSE grants[k - 1].time) + delay
        /\ grants /= <<>> =>
               grants[Len(grants)].time - grants[1].time
                   >= (Len(grants) - 1) * delay

\* Two calls of the main thread, the second of which had to sleep.
GrantsAreSpacedWitness ==
    /\ prog = "limiter" /\ delay = MaxDelay
    /\ Len(grants) = 2
    /\ \A k \in 1..2 : grants[k].thread = MainThread
    /\ grants[2].time = grants[1].time + delay
    /\ thread_pc[MainThread] = "release"
    /\ wake_at[MainThread] = grants[2].time

\* C17: at no time are two threads between acquiring and releasing the lock,
\* and every grant is at least delay after the grant before it, whichever
\* thread that one went to.
WaitIsSerialized ==
    prog = "limiter" =>
        /\ Cardinality({t \in Threads : thread_pc[t] \in InLockedSection}) <= 1
        /\ \A t \in Threads : thread_pc[t] \in InLockedSection => lock = t
        /\ \A k \in 2..Len(grants) :
               grants[k].time >= grants[k - 1].time + delay

\* One thread sleeps inside wait() while the other waits for the lock, after a
\* grant to each.
WaitIsSerializedWitness ==
    /\ prog = "limiter"
    /\ Len(grants) = 2 /\ grants[1].thread /= grants[2].thread
    /\ \E t, u \in Threads : thread_pc[t] = "sleep" /\ thread_pc[u] = "lock"

\* C18: when the main thread's wait() has been interrupted in its sleep,
\* last_request_time is what that call read, as long as no later call has
\* recorded a new one; the thread is out of wait() with the interrupt, and it
\* does not hold the lock.
InterruptedWaitTakesNoSlot ==
    (prog = "limiter" /\ thread_pc[MainThread] = "interrupted") =>
        /\ lock /= MainThread
        /\ (grants = <<>> \/ grants[Len(grants)].time <= read_last[MainThread])
               => last_request_time = read_last[MainThread]

\* The main thread was interrupted after an earlier grant, and the other
\* thread has taken the lock since.
InterruptedWaitTakesNoSlotWitness ==
    /\ prog = "limiter" /\ thread_pc[MainThread] = "interrupted"
    /\ grants /= <<>>
    /\ last_request_time = read_last[MainThread]
    /\ clock > last_request_time
    /\ \E t \in Threads : lock = t /\ t /= MainThread

\* ===================================================================
\* Properties of the requests sent
\* ===================================================================
\* C19 (as claimed): every request that goes out comes right after a
\* rate-limiter acquisition of its own.
EveryRequestIsGated ==
    \A k \in 1..Len(outbound) :
        outbound[k] \in Requests => (k > 1 /\ outbound[k - 1] = "acquire")

\* C20 (as claimed): within an item the status transition is asked for before
\* any attachment is uploaded, and every attachment upload comes before every
\* comment.
ImportStepOrder ==
    prog = "issues_setup" =>
        \A j \in 1..Len(outbound) :
            /\ outbound[j] = "attachment_upload" =>
                   \E m \in 1..(j - 1) :
                       outbound[m] \in {"transitions_get", "transition_post"}
            /\ outbound[j] = "comment" =>
                   \A m \in (j + 1)..Len(outbound) :
                       outbound[m] /= "attachment_upload"

\* ===================================================================
\* Properties of the export of one issue after another
\* ===================================================================
\* The downloads of answer a that worked, by attachment number.
Downloaded(a) == SelectSeq(Interval(1, Len(a.downloaded)),
                           LAMBDA n : a.downloaded[n])

\* The record the issue at position k is due, given what the source answered.
RecordDue(k) ==
    LET a == answers[k]
    IN  [issue |-> issues[k],
         journals |-> IF a.journals = -1 THEN None
                      ELSE Some(Interval(1, a.journals)),
         attachments |-> IF Downloaded(a) = <<>> THEN None
                         ELSE Some(Downloaded(a))]

\* The issues whose answers fetch_journals and fetch_attachments could read.
Readable == SelectSeq(Interval(1, Len(issues)), LAMBDA k : ~answers[k].raised)

SomeAttachmentFailed ==
    \/ failure.step = "attachment_upload"
    \/ \E k \in 1..Len(considered) : considered[k].action = "skipped"

\* C21 (as claimed): an item whose only failures are failures of attachments
\* still has all its attachments gone through, all its journals gone through
\* and its status transition asked for.
AttachmentFailureIsolated ==
    (/\ prog = "issues_setup" /\ pc = "returned"
     /\ jira_issue_key = "bound"
     /\ failure.step \in {"none", "attachment_upload"}
     /\ SomeAttachmentFailed) =>
        /\ attachment_no = Len(issue_data.attachments)
        /\ journal_no = Len(issue_data.journals)
        /\ "transitions_get" \in Range(outbound)

\* C22 (as claimed): after a comment of an item could not be created, the
\* issue stays created, the remaining journals are gone through and the status
\* transition is asked for.
CommentFailureIsolated ==
    (prog = "issues_setup" /\ pc = "returned" /\ failure.step = "comment") =>
        /\ jira_issue_key = "bound"
        /\ journal_no = Len(issue_data.journals)
        /\ "transitions_get" \in Range(outbound)

\* What the configuration accepts: a file that is there, no larger than the
\* maximum, of a type that can be told and is on the list.
Acceptable(file) ==
    /\ file.exists
    /\ file.size <= MaxFileSize
    /\ file.mime /= <<>>
    /\ file.mime[2] \in allowed_file_types

\* C23: the attachments of an item are taken one by one, each once and in
\* order; an upload is requested only for an acceptable file, there are as
\* many upload requests as files found fit, and each rejected file is logged
\* once and passed over.
ValidationGatesUpload ==
    prog = "issues_setup" =>
        /\ Len(considered) = attachment_no
        /\ \A k \in 1..Len(considered) :
              /\ considered[k].no = k
              /\ considered[k].action = "uploaded" =>
                     Acceptable(issue_data.attachments[k])
        /\ Count("attachment_upload", outbound) =
               Cardinality({k \in 1..Len(considered) :
                               considered[k].action = "uploaded"})
        /\ Cardinality({k \in 1..Len(log) : log[k].step = "attachment"}) =
               Cardinality({k \in 1..Len(considered) :
                               considered[k].action = "skipped"})

\* An item whose first file is an image above the maximum size and whose last
\* file is fine: the first was passed over, the last was uploaded, and the
\* journals are next.
ValidationGatesUploadWitness ==
    /\ prog = "issues_setup" /\ pc = "journals"
    /\ Len(issue_data.attachments) = MaxAttachments
    /\ issue_data.attachments[1].size > MaxFileSize
    /\ issue_data.attachments[1].mime = <<"image", "png">>
    /\ Acceptable(issue_data.attachments[MaxAttachments])
    /\ considered[1].action = "skipped"
    /\ considered[MaxAttachments].action = "uploaded"
    /\ Count("attachment_upload", outbound) = MaxAttachments - 1

\* C26 (as claimed): when an item has failed, the log holds an entry about the
\* failed step that names the item.
NoSilentFailure ==
    (prog = "issues_setup" /\ pc = "returned" /\ failure.step /= "none") =>
        \E k \in 1..Len(log) :
            log[k].step = failure.step /\ log[k].names_item

\* C27 (as claimed): once a request has been answered 401 the run is over: the
\* item in hand has returned and no other item is taken up.
UnauthorizedStopsRun ==
    (prog = "issues_setup" /\ unauthorized) => pc \in {"returned", "idle"}

\* The status codes the specification calls retryable.
Retryable == {s \in Codes : s = 408 \/ s = 429 \/ (s >= 500 /\ s < 600)}

\* The requests an item makes at a step when each goes out once.
Targets(step) ==
    CASE step = "attachment_upload" ->
             Cardinality({k \in 1..Len(considered) :
                             considered[k].action = "uploaded"})
      [] step = "comment" ->
             Cardinality({k \in 1..journal_no :
                             issue_data.journals[k] = "notes"})
      [] OTHER -> 1

\* C28 (as claimed): a request answered 408, 429 or 5xx has been sent again
\* before the item is given up.
RetryableIsRetried ==
    (/\ prog = "issues_setup" /\ pc = "returned"
     /\ failure.kind = "http" /\ failure.status \in Retryable) =>
        Count(failure.step, outbound) > Targets(failure.step)

\* ===================================================================
\* Properties of the attachment downloads
\* ===================================================================
\* C24 (as claimed): when the attachments of an issue have been gone through,
\* a download was requested for exactly those whose file was absent or empty
\* in the staging directory beforehand.
DownloadIsIdempotent ==
    (prog \in {"fetch_attachments", "main_fetch_attachments"}
         /\ pc = "done") =>
        \A k \in 1..Len(staging_at_start.files) :
            k \in Range(downloads) <=> staging_at_start.files[k] /= "full"

\* ===================================================================
\* Properties of the journals on their way to the destination
\* ===================================================================
\* C25: the journals of the export record are journals of the source in the
\* source's order, and the comments posted are journals of the record, posted
\* in that order.
CommentOrderPreserved ==
    prog = "journals_replay" =>
        /\ Range(journals.entries) \subseteq 1..Len(source_journals)
        /\ StrictlyIncreasing(journals.entries)
        /\ Range(comments_sent) \subseteq Range(journals.entries)
        /\ StrictlyIncreasing(comments_sent)

\* Every journal the source holds has notes, and a comment has been posted
\* for each, the first first and the last last.
CommentOrderPreservedWitness ==
    /\ prog = "journals_replay" /\ pc = "done"
    /\ Len(source_journals) = MaxJournals
    /\ \A k \in 1..MaxJournals : source_journals[k] = "notes"
    /\ journals.entries = Interval(1, MaxJournals)
    /\ comments_sent = Interval(1, MaxJournals)


\* ===================================================================
\* Properties of the end of a run
\* ===================================================================
\* C29 (as claimed): a run of the exporter or of the importer that is not
\* interrupted does not crash, ends with its completion log, and (for the
\* exporter) has by then handed every item after the resume position to
\* process_issue, each once and in order.
RunAlwaysFinishes ==
    prog \in {"exporter", "importer"} =>
        /\ pc /= "crashed"
        /\ pc = "done" => completion_log
        /\ (prog = "exporter" /\ pc = "done") =>
               processed = Interval(current_issue_index + 1, Len(issues))

\* ===================================================================
\* Properties of the payload of the creation request
\* ===================================================================
\* The fields of the item whose values go into the payload.
Checked ==
    {"subject", "description", "start_date", "due_date", "created_on",
     "updated_on", "closed_on", "estimated_hours"}

\* The keys the importer can put in a payload.
PayloadKeys ==
    {fields_mappings[f].mapping : f \in DOMAIN fields_mappings}
        \cup {"issuetype"}

\* C30 (as claimed): in the payload that is posted, the value under the
\* mapping of subject, description, a date or the estimated hours has the
\* type the mapping declares, so a source value of another type is not in
\* it, and no key comes from a field without a mapping.
TypeCheckedPayload ==
    (prog = "payload" /\ pc = "posted") =>
        /\ \A f \in Checked :
              fields_mappings[f].mapping \in DOMAIN jira_issue =>
                 jira_issue[fields_mappings[f].mapping].type =
                    fields_mappings[f].type
        /\ DOMAIN jira_issue \subseteq PayloadKeys

\* C31 (as claimed): in the payload that is posted, the summary and the
\* description made from a source string are its HTML-escaped form: a
\* subject or description with markup does not arrive unescaped.
SanitizedPayload ==
    (prog = "payload" /\ pc = "posted") =>
        \A f \in TextFields :
           fields[f] = "script" =>
              jira_issue[fields_mappings[f].mapping].escaped

\* ===================================================================
\* Properties of the status filter and of the transition
\* ===================================================================
\* The transitions request of the item in hand was answered.
LookupAnswered ==
    /\ "transitions_get" \in Range(outbound)
    /\ failure.step /= "transitions_get"

\* C32: a status that is not in the status table passes through: the
\* exporter sends the id it was given as status_id, the importer gives the
\* source status name to get_transition_id, and the lookup by itself does not
\* end the item with an error.
StatusPassThrough ==
    /\ (prog = "status_filter" /\ pc = "fetch" /\ args_status /= <<>>
        /\ args_status[1] \notin DOMAIN status_map) =>
           /\ "status_id" \in DOMAIN params
           /\ int(params["status_id"]) = args_status[1]
    /\ (prog = "transition" /\ LookupAnswered
        /\ issue_status \notin DOMAIN status_mappings) =>
           /\ target_status = issue_status
           /\ pc = "transition_post" => failure = NoFailure
           /\ transition_id = NoTransition => failure = NoFailure

\* C32 witness: for a status name that is not in the table a transition to
\* it was found and is about to be posted.
StatusPassThroughWitness ==
    /\ prog = "transition" /\ pc = "transition_post"
    /\ issue_status = "Resolved" /\ target_status = "Resolved"
    /\ transition_id /= NoTransition

\* C37: after an answered lookup, transition_id is the id of the first
\* transition whose target name equals the wanted name ignoring case, and
\* None when there is none; with None no transition is posted, the item ends
\* without an error and the checkpoint is written for its line.
TransitionResolution ==
    (prog = "transition" /\ LookupAnswered) =>
        LET Matches(k) == lower(transitions[k].to) = lower(issue_status)
        IN  /\ transition_id /= NoTransition =>
                 \E k \in 1..Len(transitions) :
                    /\ Matches(k)
                    /\ transitions[k].id = transition_id
                    /\ \A j \in 1..(k - 1) : ~Matches(j)
            /\ transition_id = NoTransition =>
                 /\ \A k \in 1..Len(transitions) : ~Matches(k)
                 /\ "transition_post" \notin Range(outbound)
                 /\ failure = NoFailure
                 /\ pc \in {"returned", "idle"}
                 /\ pc = "idle" => checkpoint_id = line_num

\* C37 witness: two transitions lead to the wanted status, written in
\* another case, and the id of the first one was taken.
TransitionResolutionWitness ==
    /\ prog = "transition" /\ LookupAnswered
    /\ Len(transitions) = 2
    /\ transitions[1].to /= issue_status
    /\ lower(transitions[1].to) = lower(issue_status)
    /\ lower(transitions[2].to) = lower(issue_status)
    /\ transitions[1].id /= transitions[2].id
    /\ transition_id = transitions[1].id

\* C33 (as claimed): in the payload that is posted, the priority of an item
\* whose priority has a name is that name when the table does not hold it,
\* and the mapped name when it does.
PriorityPassThrough ==
    (prog = "payload" /\ pc = "posted" /\ old_priority_name /= "none") =>
        /\ "priority" \in DOMAIN jira_issue
        /\ jira_issue["priority"].name =
              IF old_priority_name \in DOMAIN priority_mappings
              THEN priority_mappings[old_priority_name]
              ELSE old_priority_name

\* ===================================================================
\* Properties of the reporter and the assignee
\* ===================================================================
\* C34 (as claimed): once both handlers are through, a search without a
\* match has left the default reporter / no assignee, a search that failed
\* (an exception, or an answer with an error status) has left the field
\* unset, and the creation request is sent whatever the searches gave.
UnresolvedIdentityNeverFails ==
    (prog = "identity" /\ pc \in {"create", "created"}) =>
        /\ user_search.reporter = "no_match" =>
              /\ "reporter" \in DOMAIN jira_issue
              /\ jira_issue["reporter"] = DefaultReporter
        /\ user_search.assignee = "no_match" =>
              /\ "assignee" \in DOMAIN jira_issue
              /\ jira_issue["assignee"] = Unassigned
        /\ user_search.reporter \in {"raised", "status_error"} =>
              "reporter" \notin DOMAIN jira_issue
        /\ user_search.assignee \in {"raised", "status_error"} =>
              "assignee" \notin DOMAIN jira_issue
        /\ pc = "created" => "issue_create" \in Range(outbound)

\* ===================================================================
\* Properties of the persisted checkpoint
\* ===================================================================
\* C35 (as claimed): every step of the exporter or the importer that changes
\* the checkpoint file either removes it (reset) or writes the value it held
\* plus one, an absent file counting as 0.
CheckpointMonotonic ==
    [][/\ (prog = "exporter" /\ progress_file' /= progress_file) =>
            \/ progress_file' = NoFile
            \/ CheckpointValue(progress_file') =
                  CheckpointValue(progress_file) + 1
       /\ (prog = "importer" /\ checkpoint_file' /= checkpoint_file) =>
            \/ checkpoint_file' = NoFile
            \/ CheckpointValue(checkpoint_file') =
                  CheckpointValue(checkpoint_file) + 1]_vars

\* ===================================================================
\* Properties of the lock of the rate limiter
\* ===================================================================
\* C36: the lock is held only by a thread that is inside wait(); a thread in
\* the body of `with self.rate_limiter:` does not hold it, so a request made
\* there keeps no other thread out of wait().
NoLockAcrossNetworkCall ==
    prog = "limiter" =>
        /\ lock /= 0 => thread_pc[lock] \in InLockedSection
        /\ \A t \in Threads : thread_pc[t] = "body" => lock /= t

\* C36 witness: while one thread is in the body, another one has taken the
\* lock and sleeps in wait().
NoLockAcrossNetworkCallWitness ==
    /\ prog = "limiter"
    /\ \E t, u \in Threads :
          /\ t /= u
          /\ thread_pc[t] = "body"
          /\ thread_pc[u] = "sleep"
          /\ lock = u

\* ===================================================================
\* Properties of the with statement of issues_setup
\* ===================================================================
\* C38: an exception raised inside `with self.rate_limiter:` that is no
\* KeyboardInterrupt never reaches import_issues: after every failure of a
\* request issues_setup has returned, and the branch of import_issues that
\* skips the line is taken only for a line that is no JSON; a
\* KeyboardInterrupt is let through and ends the run.
ExitAbsorbsErrors ==
    prog = "issues_setup" =>
        /\ pc = "raised" => failure.step = "json"
        /\ (\E k \in 1..Len(log) : log[k].text = "skipping_line") =>
              failure.step = "json"
        /\ failure.step \notin {"none", "json", "body"} =>
              pc \in {"returned", "idle"}
        /\ failure.kind = "KeyboardInterrupt" => pc = "exited"

\* C38 witness: the creation request was answered with an error status and
\* issues_setup has returned.
ExitAbsorbsErrorsWitness ==
    /\ prog = "issues_setup" /\ pc = "returned"
    /\ failure.step = "create" /\ failure.kind = "http"
    /\ \A k \in 1..Len(log) : log[k].text /= "skipping_line"

\* ===================================================================
\* Properties of the importer's input file
\* ===================================================================
\* C39 (as claimed): no step of JiraImporter.run changes the contents of a
\* file it can be given as args.filename.
InputIsPreserved == [][prog = "importer_run" => files' = files]_vars

====
